---------------------------- MODULE Spec2Model ----------------------------
(***************************************************************************)
(* A model of dftt_timecode: the DfttTimecode value (construction from     *)
(* strings and numbers, rendering, the in-place mutators and the           *)
(* arithmetic operators) and the DfttTimeRange interval built on it.       *)
(*                                                                         *)
(* Times are exact rationals, as fractions.Fraction keeps them.  A         *)
(* rational is the record [i, n, d] standing for i + n/d with 0 <= n < d   *)
(* and gcd(n, d) = 1, so that two rationals are equal exactly when their   *)
(* records are equal and every intermediate product stays small.  Binary   *)
(* floating point is modelled by the exact value it approximates, except   *)
(* in the section on frames to seconds, which keeps the rounding error of  *)
(* the division.                                                           *)
(***************************************************************************)
EXTENDS Integers, Sequences, FiniteSets, TLC

VARIABLES
    tc,      \* the Timecode objects the caller holds, by slot
    tr,      \* the TimeRange objects the caller holds, by slot
    last,    \* the last call: its name, operands, destination, error, output
    steps,   \* the number of calls made so far
    io       \* the input and the stages of a parse/render round trip

vars == <<tc, tr, last, steps, io>>

----------------------------------------------------------------------------
(* Exact rational arithmetic (fractions.Fraction)                          *)

Abs(x) == IF x < 0 THEN -x ELSE x

RECURSIVE GCD(_, _)
GCD(a, b) == IF b = 0 THEN a ELSE GCD(b, a % b)

\* r / D below 1, reduced by the common divisor g, after the integer q
Reduced(q, r, D, g) == [i |-> q, n |-> r \div g, d |-> D \div g]

\* N / D for an integer N and a positive integer D, in lowest terms
Frac(N, D) == Reduced(N \div D, N % D, D, GCD(N % D, D))

\* N / D for integers N and D # 0
FracQ(N, D) == IF D > 0 THEN Frac(N, D) ELSE Frac(-N, -D)

RInt(k) == [i |-> k, n |-> 0, d |-> 1]

RZero == RInt(0)

RIsInt(a) == a.n = 0

\* k + f for an integer k
Plus(k, f) == [i |-> k + f.i, n |-> f.n, d |-> f.d]

\* a.n/a.d + b.n/b.d over the common denominator L
OverCommon(a, b, L) == Frac(a.n * (L \div a.d) + b.n * (L \div b.d), L)

RAdd(a, b) ==
    Plus(a.i + b.i, OverCommon(a, b, (a.d \div GCD(a.d, b.d)) * b.d))

RNeg(a) ==
    IF a.n = 0 THEN [i |-> -a.i, n |-> 0, d |-> 1]
    ELSE [i |-> -a.i - 1, n |-> a.d - a.n, d |-> a.d]

RSub(a, b) == RAdd(a, RNeg(b))

\* x * y / D with x and D cancelled by g
Cancelled(x, y, D, g) == Frac((x \div g) * y, D \div g)

\* x * y / D for an integer x, y >= 0 and D > 0, cancelling before multiplying
MulDiv(x, y, D) ==
    Plus((x \div D) * y,
         Cancelled(y, (x % D) \div GCD(x % D, D), D \div GCD(x % D, D),
                   GCD(y, D \div GCD(x % D, D))))

RMul(a, b) ==
    RAdd(RAdd(RInt(a.i * b.i), MulDiv(a.i, b.n, b.d)),
         RAdd(MulDiv(b.i, a.n, a.d),
              Frac((a.n \div GCD(a.n, b.d)) * (b.n \div GCD(b.n, a.d)),
                   (a.d \div GCD(b.n, a.d)) * (b.d \div GCD(a.n, b.d)))))

\* 1 / a for a # 0
RInv(a) == FracQ(a.d, a.i * a.d + a.n)

RDiv(a, b) == RMul(a, RInv(b))

RLt(a, b) ==
    \/ a.i < b.i
    \/ /\ a.i = b.i
       /\ a.n * (b.d \div GCD(a.d, b.d)) < b.n * (a.d \div GCD(a.d, b.d))

RLe(a, b) == a = b \/ RLt(a, b)

RSign(a) == IF a.i < 0 THEN -1 ELSE IF a.i = 0 /\ a.n = 0 THEN 0 ELSE 1

RAbs(a) == IF a.i < 0 THEN RNeg(a) ELSE a

RMin(a, b) == IF RLt(b, a) THEN b ELSE a

RMax(a, b) == IF RLt(a, b) THEN b ELSE a

\* math.floor, math.ceil and int() (truncation toward zero)
RFloor(a) == a.i

RCeil(a) == IF a.n = 0 THEN a.i ELSE a.i + 1

RTrunc(a) == IF a.i < 0 /\ a.n # 0 THEN a.i + 1 ELSE a.i

\* round(a): to the nearest integer, a half to the even neighbour
RRound(a) ==
    IF 2 * a.n < a.d THEN a.i
    ELSE IF 2 * a.n > a.d THEN a.i + 1
    ELSE IF a.i % 2 = 0 THEN a.i ELSE a.i + 1

\* a // m and a % m for m > 0 (the sign of the result follows m)
RFloorDiv(a, m) == RFloor(RDiv(a, m))

RMod(a, m) ==
    IF m.n = 0 THEN [i |-> a.i % m.i, n |-> a.n, d |-> a.d]
    ELSE IF 0 <= a.i /\ RLt(a, m) THEN a
    ELSE RSub(a, RMul(m, RInt(RFloorDiv(a, m))))

\* a // k and a % k for an integer k > 0
DivInt(a, k) == a.i \div k

ModInt(a, k) == [i |-> a.i % k, n |-> a.n, d |-> a.d]

\* round(a, 5): a rounded to a multiple of 1/100000
RRound5(a) ==
    LET Nearest(high, rest) == RRound(Plus(100 * high, Frac(100 * rest, a.d)))
    IN  RAdd(RInt(a.i),
             Frac(Nearest((1000 * a.n) \div a.d, (1000 * a.n) % a.d), 100000))

\* the number of decimal digits of n >= 0
RECURSIVE Digits(_)
Digits(n) == IF n < 10 THEN 1 ELSE 1 + Digits(n \div 10)

RECURSIVE Pow10(_)
Pow10(k) == IF k = 0 THEN 1 ELSE 10 * Pow10(k - 1)

----------------------------------------------------------------------------
(* Strings.  A timecode string is modelled by its fields:                  *)
(*   [k |-> "hms", neg, hh, mm, ss, sep, ff, w]  "-HH:MM:SS<sep>F..F", the *)
(*       last field written with w digits; hh is written with two digits   *)
(*       when 0 <= hh <= 99 and as Python's format(hh, '02d') otherwise    *)
(*   [k |-> "fcpx", neg, num, den, hasden]       "-N/Ds" or "-N/s"         *)
(*   [k |-> "num", v, dec, suffix, exp]          a decimal number v, with  *)
(*       a decimal point (dec), a suffix "", "f" or "s", in exponent       *)
(*       notation (exp)                                                    *)
(*   [k |-> "cat", frac, den]                    the digits of the         *)
(*       numerator of frac, then the digits of den, then "s"               *)
(*   [k |-> "junk"]                              text of no format         *)

HmsFieldsOk(s) ==
    /\ s.k = "hms"
    /\ s.hh >= 0 /\ s.hh <= 99
    /\ s.mm >= 0 /\ s.mm <= 59
    /\ s.ss >= 0 /\ s.ss <= 59
    /\ s.ff >= 0

SMPTE_NDF_REGEX(s) == HmsFieldsOk(s) /\ s.sep = ":" /\ s.w \in {2, 3}

SMPTE_DF_REGEX(s) == HmsFieldsOk(s) /\ s.sep = ";" /\ s.w \in {2, 3}

SMPTE_REGEX(s) == HmsFieldsOk(s) /\ s.sep \in {":", ";", ";:", ""} /\ s.w \in {2, 3}

SRT_REGEX(s) == HmsFieldsOk(s) /\ s.sep = "," /\ s.w = 3

FFMPEG_REGEX(s) == HmsFieldsOk(s) /\ s.sep = "." /\ s.w >= 1

DLP_REGEX(s) == HmsFieldsOk(s) /\ s.sep = ":" /\ s.w = 3 /\ s.ff <= 250

FCPX_REGEX(s) == s.k = "fcpx"

FRAME_REGEX(s) == s.k = "num" /\ ~s.dec /\ ~s.exp /\ s.suffix \in {"", "f"}

TIME_REGEX(s) ==
    \/ s.k = "num" /\ ~s.exp /\ s.suffix \in {"", "s"}
    \/ s.k = "cat"

\* the number a string of digits denotes
NumValue(s) ==
    IF s.k = "num" THEN s.v
    ELSE LET num == s.frac.i * s.frac.d + s.frac.n
             m == Abs(num) * Pow10(Digits(s.den)) + s.den
         IN  RInt(IF num < 0 THEN -m ELSE m)

\* str.startswith('-')
StartsWithMinus(s) ==
    CASE s.k = "hms" -> s.neg \/ s.hh < 0
      [] s.k = "fcpx" -> s.neg
      [] s.k = "num" -> RSign(s.v) < 0
      [] s.k = "cat" -> RSign(s.frac) < 0
      [] OTHER -> FALSE

----------------------------------------------------------------------------
(* DfttTimecode                                                            *)

Day == 86400

NoTc == [type |-> "absent"]

Types == {"smpte", "srt", "dlp", "ffmpeg", "fcpx", "frame", "time"}

\* the error kinds derived from DFTTError
DFTTErrors ==
    {"DFTTTimecodeValueError", "DFTTTimecodeInitializationError",
     "DFTTTimecodeTypeError", "DFTTTimecodeOperatorError",
     "DFTTTimeRangeMethodError", "DFTTTimeRangeValueError",
     "DFTTTimeRangeTypeError", "DFTTTimeRangeFPSError"}

\* the outcome of a call: an error kind, or "none" with the value produced
Ok(v) == [err |-> "none", val |-> v]

Raise(e) == [err |-> e, val |-> NoTc]

\* round(fps, 2) is a multiple of m/100
IsMultiple(fps, m) == RRound(RMul(fps, RInt(100))) % m = 0

validate_drop_frame(self_fps, drop_frame, fps) ==
    IF IsMultiple(fps, 2997) THEN drop_frame
    ELSE IsMultiple(self_fps, 2398)

init_common(timecode_type, fps, drop_frame, strict) ==
    [type |-> timecode_type,
     fps |-> fps,
     nominal_fps |-> RCeil(fps),
     drop_frame |-> validate_drop_frame(fps, drop_frame, fps),
     strict |-> strict,
     precise_time |-> RZero]

apply_strict(t) ==
    IF t.strict THEN [t EXCEPT !.precise_time = ModInt(@, Day)] ELSE t

\* the type a string is detected as, "none" when no grammar matches
detect_timecode_type(t, s) ==
    IF SMPTE_NDF_REGEX(s)
    THEN IF t.drop_frame THEN "DFTTTimecodeInitializationError" ELSE "smpte"
    ELSE IF SMPTE_DF_REGEX(s)
    THEN IF ~t.drop_frame THEN "DFTTTimecodeInitializationError" ELSE "smpte"
    ELSE IF SRT_REGEX(s) THEN "srt"
    ELSE IF FFMPEG_REGEX(s) THEN "ffmpeg"
    ELSE IF FCPX_REGEX(s) THEN "fcpx"
    ELSE IF FRAME_REGEX(s) THEN "frame"
    ELSE IF TIME_REGEX(s) THEN "time"
    ELSE "none"

\* the modulus of a frame index in strict mode
StrictFrames(t) ==
    IF t.drop_frame THEN RMul(t.fps, RInt(Day)) ELSE RInt(t.nominal_fps * Day)

\* a frame index wrapped in strict mode, then negated under a leading '-',
\* as seconds
FramesToTime(t, frame_index, minus_flag) ==
    Ok([t EXCEPT !.precise_time =
           RDiv(IF minus_flag
                THEN RNeg(IF t.strict THEN RMod(frame_index, StrictFrames(t))
                          ELSE frame_index)
                ELSE IF t.strict THEN RMod(frame_index, StrictFrames(t))
                ELSE frame_index,
                t.fps)])

\* a time wrapped in strict mode
SecondsToTime(t, v) == Ok(apply_strict([t EXCEPT !.precise_time = v]))

init_smpte(t, s, minus_flag) ==
    IF ~SMPTE_REGEX(s) THEN Raise("DFTTTimecodeTypeError")
    ELSE IF s.ff > t.nominal_fps - 1 THEN Raise("DFTTTimecodeValueError")
    ELSE IF ~t.drop_frame
    THEN FramesToTime(t, RInt(s.ff + t.nominal_fps
                                      * (s.hh * 3600 + s.mm * 60 + s.ss)),
                      minus_flag)
    ELSE
      LET drop_per_min == Frac(t.nominal_fps * 2, 30)
          total_minutes == 60 * s.hh + s.mm
      IN  IF /\ s.mm % 10 # 0 /\ s.ss = 0
             /\ RInt(s.ff) \in {RZero, RSub(drop_per_min, RInt(1))}
          THEN Raise("DFTTTimecodeValueError")
          ELSE FramesToTime(
                   t,
                   RSub(RInt((s.hh * 3600 + s.mm * 60 + s.ss) * t.nominal_fps
                             + s.ff),
                        RMul(drop_per_min,
                             RInt(total_minutes - total_minutes \div 10))),
                   minus_flag)

\* hh*3600 + mm*60 + ss + sub, negated under a leading '-', wrapped if strict
InitSeconds(t, s, sub, minus_flag) ==
    SecondsToTime(t, IF minus_flag
                     THEN RNeg(Plus(s.hh * 3600 + s.mm * 60 + s.ss, sub))
                     ELSE Plus(s.hh * 3600 + s.mm * 60 + s.ss, sub))

init_srt(t, s, minus_flag) ==
    IF ~SRT_REGEX(s) THEN Raise("DFTTTimecodeTypeError")
    ELSE InitSeconds(t, s, Frac(s.ff, 1000), minus_flag)

init_dlp(t, s, minus_flag) ==
    IF ~DLP_REGEX(s) THEN Raise("DFTTTimecodeTypeError")
    ELSE InitSeconds(t, s, Frac(s.ff, 250), minus_flag)

\* the sub-second digits are read as an integer and written back after "0."
init_ffmpeg(t, s, minus_flag) ==
    IF ~FFMPEG_REGEX(s) THEN Raise("DFTTTimecodeTypeError")
    ELSE InitSeconds(t, s, Frac(s.ff, Pow10(Digits(s.ff))), minus_flag)

init_fcpx(t, s, minus_flag) ==
    IF ~FCPX_REGEX(s) THEN Raise("DFTTTimecodeTypeError")
    ELSE IF ~s.hasden \/ s.den = 0 THEN Raise("ZeroDivisionError")
    ELSE SecondsToTime(t, IF minus_flag THEN RNeg(Frac(s.num, s.den))
                          ELSE Frac(s.num, s.den))

\* the captured digits keep their sign, so minus_flag is not applied again
init_frame(t, s, minus_flag) ==
    IF ~FRAME_REGEX(s) THEN Raise("DFTTTimecodeTypeError")
    ELSE FramesToTime(t, s.v, FALSE)

init_time(t, s, minus_flag) ==
    IF ~TIME_REGEX(s) THEN Raise("DFTTTimecodeTypeError")
    ELSE SecondsToTime(t, NumValue(s))

\* the handler registered for the type t carries, applied to the string
handler(t, s, minus_flag) ==
    CASE t.type = "DFTTTimecodeInitializationError" -> Raise(t.type)
      [] t.type = "smpte" -> init_smpte(t, s, minus_flag)
      [] t.type = "srt" -> init_srt(t, s, minus_flag)
      [] t.type = "dlp" -> init_dlp(t, s, minus_flag)
      [] t.type = "ffmpeg" -> init_ffmpeg(t, s, minus_flag)
      [] t.type = "fcpx" -> init_fcpx(t, s, minus_flag)
      [] t.type = "frame" -> init_frame(t, s, minus_flag)
      [] t.type = "time" -> init_time(t, s, minus_flag)
      [] OTHER -> Raise("KeyError")

\* the type argument, or the detected type when it is 'auto'
Typed(t, s) ==
    IF t.type # "auto" THEN t ELSE [t EXCEPT !.type = detect_timecode_type(t, s)]

\* DfttTimecode(str, timecode_type, fps, drop_frame, strict)
NewFromStr(s, timecode_type, fps, drop_frame, strict) ==
    handler(Typed(init_common(timecode_type, fps, drop_frame, strict), s), s,
            StartsWithMinus(s))

\* __init__ for a value of any other type, a DfttTimecode included: the
\* instance is left as it is
init_default(t) == [err |-> "TypeError", val |-> t]

\* DfttTimecode(Fraction | float | tuple | list, timecode_type, ...)
NewFromSeconds(v, timecode_type, fps, drop_frame, strict) ==
    IF timecode_type \in {"time", "auto"}
    THEN SecondsToTime(init_common(timecode_type, fps, drop_frame, strict), v)
    ELSE Raise("DFTTTimecodeTypeError")

\* DfttTimecode(int, timecode_type, ...)
NewFromInt(v, timecode_type, fps, drop_frame, strict) ==
    IF timecode_type \in {"frame", "auto"}
    THEN FramesToTime(init_common(timecode_type, fps, drop_frame, strict),
                      RInt(v), FALSE)
    ELSE IF timecode_type = "time"
    THEN SecondsToTime(init_common(timecode_type, fps, drop_frame, strict),
                       RInt(v))
    ELSE Raise("DFTTTimecodeTypeError")

----------------------------------------------------------------------------
(* Rendering                                                               *)

Max(a, b) == IF a > b THEN a ELSE b

\* round(precise_time * fps)
FrameIndex(t) == RRound(RMul(t.precise_time, t.fps))

\* the frame number as if no frame numbers had been dropped
NominalFramecount(t, frame_index) ==
    IF ~t.drop_frame THEN RInt(frame_index)
    ELSE
      LET drop_per_min == Frac(t.nominal_fps * 2, 30)
          Compensated(d, m) ==
              RAdd(RInt(frame_index),
                   RAdd(RMul(drop_per_min, RInt(9 * d)),
                        RMul(drop_per_min,
                             RInt(IF RLt(RInt(2), m)
                                  THEN RFloorDiv(
                                           RSub(m, drop_per_min),
                                           RSub(RInt(t.nominal_fps * 60),
                                                drop_per_min))
                                  ELSE 0))))
          DivMod(df_framecount_10min) ==
              Compensated(RFloorDiv(RInt(frame_index), df_framecount_10min),
                          RMod(RInt(frame_index), df_framecount_10min))
      IN  DivMod(RSub(RInt(t.nominal_fps * 600), RMul(RInt(9), drop_per_min)))

convert_framecount_to_smpte_parts(frame_count, fps) ==
    << DivInt(frame_count, 60 * 60 * fps),
       DivInt(ModInt(frame_count, 60 * 60 * fps), 60 * fps),
       DivInt(ModInt(frame_count, 60 * fps), fps),
       RRound(ModInt(frame_count, fps)) >>

\* the string _convert_to_output_smpte builds for output_part = 0
SmpteString(t) ==
    LET Joined(minus_flag, parts) ==
            [k |-> "hms", neg |-> minus_flag,
             hh |-> parts[1], mm |-> parts[2], ss |-> parts[3],
             sep |-> IF t.drop_frame THEN ";" ELSE ":",
             ff |-> parts[4],
             w |-> Max(IF RLt(t.fps, RInt(100)) THEN 2 ELSE 3,
                       Digits(parts[4]))]
        Of(frame_index) ==
            Joined(frame_index < 0,
                   convert_framecount_to_smpte_parts(
                       NominalFramecount(t, Abs(frame_index)), t.nominal_fps))
    IN  Of(FrameIndex(t))

\* one field of an "hms" string, as the string of its digits
Field(s, part) ==
    CASE part = 1 -> [k |-> "field", neg |-> s.neg, v |-> s.hh, w |-> 2]
      [] part = 2 -> [k |-> "field", neg |-> FALSE, v |-> s.mm, w |-> 2]
      [] part = 3 -> [k |-> "field", neg |-> FALSE, v |-> s.ss, w |-> 2]
      [] OTHER -> [k |-> "field", neg |-> FALSE, v |-> s.ff, w |-> s.w]

\* output_strs[output_part - 1] of (hh, mm, ss, ff), the whole string for 0
SmptePart(s, output_part) ==
    IF output_part > 4 THEN Ok(Field(s, 4))
    ELSE IF output_part = 0 THEN Ok(s)
    ELSE IF 1 <= output_part THEN Ok(Field(s, output_part))
    ELSE Raise("IndexError")

convert_to_output_smpte(t, output_part) ==
    SmptePart(SmpteString(t), output_part)

\* the overflow of the rounded sub-second part carried into ss, mm and hh
Carried(minus_flag, hh0, mm0, ss0, sub0, sub_sec_multiplier, frame_seperator, width) ==
    LET over == sub0 >= sub_sec_multiplier
        ss1 == IF over THEN ss0 + sub0 \div sub_sec_multiplier ELSE ss0
        sub1 == IF over THEN sub0 % sub_sec_multiplier ELSE sub0
        mm1 == IF over /\ ss1 >= 60 THEN mm0 + ss1 \div 60 ELSE mm0
        ss2 == IF over /\ ss1 >= 60 THEN ss1 % 60 ELSE ss1
        hh1 == IF over /\ ss1 >= 60 /\ mm1 >= 60 THEN hh0 + mm1 \div 60 ELSE hh0
        mm2 == IF over /\ ss1 >= 60 /\ mm1 >= 60 THEN mm1 % 60 ELSE mm1
    IN  [k |-> "hms", neg |-> minus_flag, hh |-> hh1, mm |-> mm2, ss |-> ss2,
         sep |-> frame_seperator, ff |-> sub1, w |-> Max(width, Digits(sub1))]

convert_precise_time_to_parts(t, sub_sec_multiplier, frame_seperator, width) ==
    LET Split(temp_precise_time) ==
            Carried(RSign(t.precise_time) < 0,
                    temp_precise_time.i \div 3600,
                    (temp_precise_time.i % 3600) \div 60,
                    temp_precise_time.i % 60,
                    RRound(MulDiv(sub_sec_multiplier, temp_precise_time.n,
                                  temp_precise_time.d)),
                    sub_sec_multiplier, frame_seperator, width)
    IN  Split(RAbs(t.precise_time))

\* output_strs[output_part] of the five-element tuple (full, hh, mm, ss, ff)
PartsOutput(s, output_part) ==
    IF output_part > 4 THEN Ok(Field(s, 4))
    ELSE IF output_part = 0 \/ output_part = -5 THEN Ok(s)
    ELSE IF output_part >= 1 THEN Ok(Field(s, output_part))
    ELSE IF output_part >= -4 THEN Ok(Field(s, output_part + 5))
    ELSE Raise("IndexError")

convert_to_output_srt(t, output_part) ==
    PartsOutput(convert_precise_time_to_parts(t, 1000, ",", 3), output_part)

convert_to_output_dlp(t, output_part) ==
    PartsOutput(convert_precise_time_to_parts(t, 250, ":", 3), output_part)

convert_to_output_ffmpeg(t, output_part) ==
    PartsOutput(convert_precise_time_to_parts(t, 100, ".", 2), output_part)

\* the numerator, then the denominator unless the time is integral, then "s"
convert_to_output_fcpx(t, output_part) ==
    LET p == t.precise_time
    IN  IF RIsInt(p)
        THEN Ok([k |-> "num", v |-> p, dec |-> FALSE, suffix |-> "s",
                 exp |-> FALSE])
        ELSE Ok([k |-> "cat", frac |-> p, den |-> p.d])

convert_to_output_frame(t, output_part) ==
    Ok([k |-> "num", v |-> RInt(FrameIndex(t)), dec |-> FALSE, suffix |-> "",
        exp |-> FALSE])

\* str(round(float(precise_time), 5)): exponent notation below 0.0001
convert_to_output_time(t, output_part) ==
    LET v == RRound5(t.precise_time)
    IN  Ok([k |-> "num", v |-> v, dec |-> TRUE, suffix |-> "",
            exp |-> v # RZero /\ RLt(RAbs(v), Frac(1, 10000))])

timecode_output(t, dest_type, output_part) ==
    LET ty == IF dest_type = "auto" THEN t.type ELSE dest_type
    IN  CASE ty = "smpte" -> convert_to_output_smpte(t, output_part)
          [] ty = "srt" -> convert_to_output_srt(t, output_part)
          [] ty = "dlp" -> convert_to_output_dlp(t, output_part)
          [] ty = "ffmpeg" -> convert_to_output_ffmpeg(t, output_part)
          [] ty = "fcpx" -> convert_to_output_fcpx(t, output_part)
          [] ty = "frame" -> convert_to_output_frame(t, output_part)
          [] ty = "time" -> convert_to_output_time(t, output_part)
          [] OTHER -> Raise("AttributeError")

----------------------------------------------------------------------------
(* Mutators.  set_fps and set_strict return the receiver after the call;   *)
(* set_type, which can raise, returns [err, val] with val the receiver     *)
(* after the call, also when the call raises.                              *)

set_fps(t, dest_fps, rounding) ==
    LET t1 == [t EXCEPT !.fps = dest_fps, !.nominal_fps = RCeil(dest_fps)]
    IN  IF rounding
        THEN [t1 EXCEPT !.precise_time =
                            RDiv(RInt(RRound(RMul(t.precise_time, dest_fps))),
                                 dest_fps)]
        ELSE t1

set_type(t, dest_type, rounding) ==
    LET Adopt(t1, temp_timecode_object) ==
            IF temp_timecode_object.err # "none"
            THEN [err |-> temp_timecode_object.err, val |-> t1]
            ELSE [err |-> "none",
                  val |-> [t1 EXCEPT !.precise_time =
                                         temp_timecode_object.val.precise_time]]
        Reparse(t1, temp_str) ==
            IF temp_str.err # "none" THEN [err |-> temp_str.err, val |-> t1]
            ELSE Adopt(t1, NewFromStr(temp_str.val, dest_type, t1.fps,
                                      t1.drop_frame, t1.strict))
        Round(t1) ==
            IF ~rounding THEN [err |-> "none", val |-> t1]
            ELSE Reparse(t1, timecode_output(t1, dest_type, 0))
    IN  Round(IF dest_type \in Types THEN [t EXCEPT !.type = dest_type] ELSE t)

set_strict(t, strict) ==
    IF strict = t.strict THEN t
    ELSE LET temp_timecode_object ==
                 NewFromSeconds(t.precise_time, "time", t.fps, t.drop_frame,
                                strict)
         IN  [t EXCEPT !.precise_time = temp_timecode_object.val.precise_time,
                       !.strict = strict]

----------------------------------------------------------------------------
(* Operators.  An operand is [k |-> "tc", t |-> a Timecode],               *)
(* [k |-> "int", n |-> an integer], [k |-> "sec", v |-> a float or         *)
(* Fraction] or [k |-> "str"] (a type no operator accepts).  Each returns  *)
(* [err, val, self, other]: the new Timecode, and the receiver and the     *)
(* Timecode operand as the call leaves them.                               *)

\* DfttTimecode(value, 'time', fps, drop_frame, strict).set_type(type, False)
Derived(t, value) ==
    LET temp_object ==
            NewFromSeconds(value, "time", t.fps, t.drop_frame, t.strict)
    IN  set_type(temp_object.val, t.type, FALSE).val

OtherTc(other) == IF other.k = "tc" THEN other.t ELSE NoTc

OpRaise(e, t, other) ==
    [err |-> e, val |-> NoTc, self |-> t, other |-> OtherTc(other)]

OpOk(t, value, other) ==
    [err |-> "none", val |-> Derived(t, value), self |-> t,
     other |-> OtherTc(other)]

\* addition and subtraction that require the same fps only
AddSubOfAnyDropFrame(t, other, sign) ==
    LET Signed(v) == IF sign = 1 THEN v ELSE RNeg(v)
    IN  CASE other.k = "tc" ->
               IF t.fps = other.t.fps
               THEN OpOk([t EXCEPT !.strict = t.strict \/ other.t.strict],
                         RAdd(t.precise_time, Signed(other.t.precise_time)),
                         other)
               ELSE OpRaise("DFTTTimecodeOperatorError", t, other)
          [] other.k = "int" ->
               OpOk(t, RAdd(t.precise_time,
                            Signed(RDiv(RInt(other.n), t.fps))), other)
          [] other.k = "sec" ->
               OpOk(t, RAdd(t.precise_time, Signed(other.v)), other)
          [] OTHER -> OpRaise("DFTTTimecodeOperatorError", t, other)

\* __add__ for sign = 1 and __sub__ for sign = -1
AddSub(t, other, sign) ==
    LET Signed(v) == IF sign = 1 THEN v ELSE RNeg(v)
    IN  CASE other.k = "tc" ->
               IF t.fps = other.t.fps /\ t.drop_frame = other.t.drop_frame
               THEN OpOk([t EXCEPT !.strict = t.strict \/ other.t.strict],
                         RAdd(t.precise_time, Signed(other.t.precise_time)),
                         other)
               ELSE OpRaise("DFTTTimecodeOperatorError", t, other)
          [] other.k = "int" ->
               OpOk(t, RAdd(t.precise_time,
                            Signed(RDiv(RInt(other.n), t.fps))), other)
          [] other.k = "sec" ->
               OpOk(t, RAdd(t.precise_time, Signed(other.v)), other)
          [] OTHER -> OpRaise("DFTTTimecodeOperatorError", t, other)

add(t, other) == AddSub(t, other, 1)

sub(t, other) == AddSub(t, other, -1)

\* number - timecode
rsub(t, other) ==
    CASE other.k = "int" ->
           OpOk(t, RSub(RDiv(RInt(other.n), t.fps), t.precise_time), other)
      [] other.k = "sec" -> OpOk(t, RSub(other.v, t.precise_time), other)
      [] OTHER -> OpRaise("DFTTTimecodeOperatorError", t, other)

OperandValue(other) == IF other.k = "int" THEN RInt(other.n) ELSE other.v

mul(t, other) ==
    IF other.k \in {"int", "sec"}
    THEN OpOk(t, RMul(t.precise_time, OperandValue(other)), other)
    ELSE OpRaise("DFTTTimecodeOperatorError", t, other)

truediv(t, other) ==
    IF other.k \in {"int", "sec"}
    THEN IF OperandValue(other) = RZero
         THEN OpRaise("ZeroDivisionError", t, other)
         ELSE OpOk(t, RDiv(t.precise_time, OperandValue(other)), other)
    ELSE OpRaise("DFTTTimecodeOperatorError", t, other)

neg(t) ==
    [err |-> "none", val |-> Derived(t, RNeg(t.precise_time)), self |-> t,
     other |-> NoTc]

\* t == other for two Timecodes: the times compared to five decimals
eq(t, other) ==
    IF t.fps # other.fps THEN [err |-> "DFTTTimecodeOperatorError", val |-> FALSE]
    ELSE [err |-> "none",
          val |-> RRound5(t.precise_time) = RRound5(other.precise_time)]

\* t (op) other for two Timecodes and a comparison operator: the times are
\* compared to five decimals, and != is the negation of ==
compare(op, t, other) ==
    LET Compared(x, y) ==
            CASE op = "eq" -> x = y
              [] op = "ne" -> x # y
              [] op = "lt" -> RLt(x, y)
              [] op = "le" -> RLe(x, y)
              [] op = "gt" -> RLt(y, x)
              [] op = "ge" -> RLe(y, x)
    IN  IF t.fps # other.fps THEN Raise("DFTTTimecodeOperatorError")
        ELSE Ok(Compared(RRound5(t.precise_time), RRound5(other.precise_time)))

----------------------------------------------------------------------------
(* The calls a client makes on Timecodes.  The client holds Timecodes in   *)
(* the variables Slots; a call that returns a Timecode binds it to the     *)
(* variable dst, or to none (dst = 0).                                     *)

Slots == 1 .. 2

MaxSteps == 2

MaxRangeOps == 1

MaxIter == 2

NoTr == [forward |-> "absent"]

NoIo == [pc |-> "none"]

Hms(minus, hh, mm, ss, sep, ff, w) ==
    [k |-> "hms", neg |-> minus, hh |-> hh, mm |-> mm, ss |-> ss, sep |-> sep,
     ff |-> ff, w |-> w]

Num(v, dec, suffix) ==
    [k |-> "num", v |-> v, dec |-> dec, suffix |-> suffix, exp |-> FALSE]

StrArg(s) == [k |-> "str", s |-> s]

IntArg(v) == [k |-> "int", n |-> v]

SecArg(v) == [k |-> "sec", v |-> v]

\* a fractions.Fraction, where a method tells it from a float
FracArg(v) == [k |-> "frac", v |-> v]

FpsSet == {RInt(24), Frac(2997, 100)}

\* the values Timecodes are constructed from
Values ==
    { StrArg(Hms(TRUE, 1, 0, 0, ":", 0, 2)),
      StrArg(Hms(FALSE, 25, 0, 0, ":", 0, 2)),
      StrArg(Hms(FALSE, 0, 1, 0, ";", 2, 2)),
      StrArg(Hms(TRUE, 0, 0, 1, ",", 500, 3)),
      StrArg(Num(RInt(-5), FALSE, "f")),
      IntArg(2591999),
      SecArg(Frac(8639999, 100)) }

TypeArgs == {"auto", "smpte", "time"}

StartValues ==
    { StrArg(Hms(FALSE, 25, 0, 0, ":", 0, 2)),
      StrArg(Hms(FALSE, 0, 1, 0, ";", 2, 2)) }

\* DfttTimecode(value, timecode_type, fps, drop_frame, strict)
NewTimecode(value, timecode_type, fps, drop_frame, strict) ==
    CASE value.k = "str" ->
           NewFromStr(value.s, timecode_type, fps, drop_frame, strict)
      [] value.k = "int" ->
           NewFromInt(value.n, timecode_type, fps, drop_frame, strict)
      [] OTHER ->
           NewFromSeconds(value.v, timecode_type, fps, drop_frame, strict)

Call(op, err, a, b, dst, val) ==
    [op |-> op, err |-> err, a |-> a, b |-> b, dst |-> dst, val |-> val]

Bind(f, dst, val) == IF dst = 0 THEN f ELSE [f EXCEPT ![dst] = val]

\* no Timecode constructed yet
InitNew ==
    /\ tc = [i \in Slots |-> NoTc]
    /\ tr = <<>>
    /\ last = Call("init", "none", 0, 0, 0, NoTc)
    /\ steps = 0
    /\ io = NoIo

New(dst) ==
    \E value \in Values, timecode_type \in TypeArgs, fps \in FpsSet,
       drop_frame \in BOOLEAN, strict \in BOOLEAN :
        LET r == NewTimecode(value, timecode_type, fps, drop_frame, strict)
        IN  /\ steps < MaxSteps
            /\ tc[dst] = NoTc
            /\ tc' = IF r.err = "none" THEN Bind(tc, dst, r.val) ELSE tc
            /\ last' = Call("new", r.err, 0, 0, dst, r.val)
            /\ steps' = steps + 1
            /\ UNCHANGED <<tr, io>>

\* DfttTimecode(tc[a]): __new__ returns tc[a] itself, and __init__ then runs
\* on it with a value of a type no overload is registered for
NewFromTimecode(a) ==
    /\ steps < MaxSteps
    /\ tc[a] # NoTc
    /\ last' = Call("new_from_tc", init_default(tc[a]).err, a, 0, 0,
                    init_default(tc[a]).val)
    /\ steps' = steps + 1
    /\ UNCHANGED <<tc, tr, io>>

NextNew ==
    \/ \E dst \in Slots : New(dst)
    \/ \E a \in Slots : NewFromTimecode(a)

SpecNew == InitNew /\ [][NextNew]_vars

\* the Timecodes the client starts from
StartTimecodes ==
    LET made == {NewTimecode(value, "auto", fps, drop_frame, strict) :
                     value \in StartValues, fps \in FpsSet,
                     drop_frame \in BOOLEAN, strict \in BOOLEAN}
    IN  {r.val : r \in {m \in made : m.err = "none"}}

Init ==
    /\ tc \in [Slots -> StartTimecodes]
    /\ tr = <<>>
    /\ last = Call("init", "none", 0, 0, 0, NoTc)
    /\ steps = 0
    /\ io = NoIo

SetFps(a) ==
    \E dest_fps \in FpsSet, rounding \in BOOLEAN :
        /\ steps < MaxSteps
        /\ tc[a] # NoTc
        /\ tc' = [tc EXCEPT ![a] = set_fps(tc[a], dest_fps, rounding)]
        /\ last' = Call("set_fps", "none", a, 0, 0, tc'[a])
        /\ steps' = steps + 1
        /\ UNCHANGED <<tr, io>>

DestTypes == {"smpte", "srt", "fcpx", "time", "bogus"}

SetType(a) ==
    \E dest_type \in DestTypes, rounding \in BOOLEAN :
        LET r == set_type(tc[a], dest_type, rounding)
        IN  /\ steps < MaxSteps
            /\ tc[a] # NoTc
            /\ tc' = [tc EXCEPT ![a] = r.val]
            /\ last' = Call("set_type", r.err, a, 0, 0, r.val)
            /\ steps' = steps + 1
            /\ UNCHANGED <<tr, io>>

SetStrict(a) ==
    \E strict \in BOOLEAN :
        /\ steps < MaxSteps
        /\ tc[a] # NoTc
        /\ tc' = [tc EXCEPT ![a] = set_strict(tc[a], strict)]
        /\ last' = Call("set_strict", "none", a, 0, 0, tc'[a])
        /\ steps' = steps + 1
        /\ UNCHANGED <<tr, io>>

\* the operands of the binary operators
Numbers == {IntArg(100), IntArg(0), SecArg(Frac(1, 2)), [k |-> "str"]}

\* tc[a] (op) tc[b], or tc[a] (op) number when b = 0
Binary(name, a, b, dst, r) ==
    /\ steps < MaxSteps
    /\ tc' = Bind(IF b = 0 \/ b = a THEN [tc EXCEPT ![a] = r.self]
                  ELSE [tc EXCEPT ![a] = r.self, ![b] = r.other],
                  IF r.err = "none" THEN dst ELSE 0, r.val)
    /\ last' = Call(name, r.err, a, b, IF r.err = "none" THEN dst ELSE 0, r.val)
    /\ steps' = steps + 1
    /\ UNCHANGED <<tr, io>>

Operands(b) ==
    IF b = 0 THEN Numbers
    ELSE IF tc[b] = NoTc THEN {} ELSE {[k |-> "tc", t |-> tc[b]]}

Add(a, b, dst) ==
    /\ tc[a] # NoTc
    /\ \E other \in Operands(b) : Binary("add", a, b, dst, add(tc[a], other))

Sub(a, b, dst) ==
    /\ tc[a] # NoTc
    /\ \E other \in Operands(b) : Binary("sub", a, b, dst, sub(tc[a], other))

ReflectedSub(a, dst) ==
    /\ tc[a] # NoTc
    /\ \E other \in Numbers : Binary("rsub", a, 0, dst, rsub(tc[a], other))

Mul(a, b, dst) ==
    /\ tc[a] # NoTc
    /\ \E other \in Operands(b) : Binary("mul", a, b, dst, mul(tc[a], other))

TrueDiv(a, b, dst) ==
    /\ tc[a] # NoTc
    /\ \E other \in Operands(b) :
           Binary("truediv", a, b, dst, truediv(tc[a], other))

Neg(a, dst) ==
    /\ tc[a] # NoTc
    /\ Binary("neg", a, 0, dst, neg(tc[a]))

Next ==
    \/ \E a \in Slots : SetFps(a)
    \/ \E a \in Slots : SetType(a)
    \/ \E a \in Slots : SetStrict(a)
    \/ \E a \in Slots : \E b \in (Slots \ {a}) \cup {0}, dst \in (Slots \ {a}) \cup {0} :
           \/ Add(a, b, dst)
           \/ Sub(a, b, dst)
           \/ Mul(a, b, dst)
           \/ TrueDiv(a, b, dst)
    \/ \E a \in Slots : \E dst \in (Slots \ {a}) \cup {0} :
           \/ ReflectedSub(a, dst)
           \/ Neg(a, dst)

Spec == Init /\ [][Next]_vars

\* the client adds, subtracts and compares the Timecodes it holds
Comparisons == {"eq", "ne", "lt", "le", "gt", "ge"}

\* tc[a] (op) tc[b] for a comparison operator
Compare(a, b) ==
    \E op \in Comparisons :
        /\ steps < MaxSteps
        /\ tc[a] # NoTc
        /\ tc[b] # NoTc
        /\ last' = Call(op, compare(op, tc[a], tc[b]).err, a, b, 0,
                        compare(op, tc[a], tc[b]).val)
        /\ steps' = steps + 1
        /\ UNCHANGED <<tc, tr, io>>

NextCompare ==
    \E a \in Slots, b \in Slots :
        \/ \E dst \in (Slots \ {a}) \cup {0} : Add(a, b, dst) \/ Sub(a, b, dst)
        \/ Compare(a, b)

SpecCompare == Init /\ [][NextCompare]_vars


----------------------------------------------------------------------------
(* DfttTimeRange.  A range is [start_precise_time, precise_duration,       *)
(* forward, fps, strict_24h].  An argument is an operand record as above,  *)
(* [k |-> "str", s |-> a string] or [k |-> "range", r |-> a range].  A     *)
(* call returns [err, val, self, other]: the value returned, and the       *)
(* receiver and the argument range as the call leaves them.  NoTr as val   *)
(* stands for None.                                                        *)

TIME_24H_SECONDS == 86400

RangeRaise(e) == [err |-> e, val |-> NoTr]

\* DfttTimecode(value, fps=fps, drop_frame=drop_frame, strict=strict), the
\* type left to the default of the overload for the value's type
DefaultTimecode(value, fps, drop_frame, strict) ==
    CASE value.k = "str" -> NewFromStr(value.s, "auto", fps, drop_frame, strict)
      [] value.k = "int" -> NewFromInt(value.n, "frame", fps, drop_frame, strict)
      [] value.k = "sec" -> NewFromSeconds(value.v, "time", fps, drop_frame, strict)
      [] value.k = "frac" -> NewFromSeconds(value.v, "time", fps, drop_frame, strict)
      [] OTHER -> Raise("TypeError")

\* a constructor that accepts a zero duration
NewRangeOfAnyLength(start_precise_time, precise_duration, forward, fps, strict_24h) ==
    IF strict_24h /\ RLt(RInt(TIME_24H_SECONDS), RAbs(precise_duration))
    THEN RangeRaise("DFTTTimeRangeValueError")
    ELSE Ok([start_precise_time |-> start_precise_time,
             precise_duration |-> precise_duration,
             forward |-> forward, fps |-> fps, strict_24h |-> strict_24h])

\* DfttTimeRange(start_precise_time=..., precise_duration=..., forward, fps,
\* strict_24h)
NewRange(start_precise_time, precise_duration, forward, fps, strict_24h) ==
    IF precise_duration = RZero THEN RangeRaise("DFTTTimeRangeValueError")
    ELSE IF strict_24h /\ RLt(RInt(TIME_24H_SECONDS), RAbs(precise_duration))
    THEN RangeRaise("DFTTTimeRangeValueError")
    ELSE Ok([start_precise_time |-> start_precise_time,
             precise_duration |-> precise_duration,
             forward |-> forward, fps |-> fps, strict_24h |-> strict_24h])

\* the range from the two Timecodes made of the arguments
FromEnds(start_tc, end_tc, forward, fps, strict_24h) ==
    LET Crossing(d) ==
            NewRange(start_tc.val.precise_time,
                     IF strict_24h /\ RSign(d) < 0
                     THEN RAdd(d, RInt(TIME_24H_SECONDS)) ELSE d,
                     forward, fps, strict_24h)
    IN  IF start_tc.err # "none" THEN RangeRaise(start_tc.err)
        ELSE IF end_tc.err # "none" THEN RangeRaise(end_tc.err)
        ELSE Crossing(IF forward
                      THEN RSub(end_tc.val.precise_time,
                                start_tc.val.precise_time)
                      ELSE RSub(start_tc.val.precise_time,
                                end_tc.val.precise_time))

\* DfttTimeRange(start_tc, end_tc, forward, fps, strict_24h)
init_from_timecodes(start_tc, end_tc, forward, fps, strict_24h) ==
    IF start_tc.k = "tc" /\ end_tc.k = "tc"
    THEN IF start_tc.t.fps # end_tc.t.fps
         THEN RangeRaise("DFTTTimeRangeFPSError")
         ELSE FromEnds(Ok(start_tc.t), Ok(end_tc.t), forward, start_tc.t.fps,
                       strict_24h)
    ELSE IF start_tc.k = "tc"
    THEN FromEnds(Ok(start_tc.t),
                  DefaultTimecode(end_tc, start_tc.t.fps, start_tc.t.drop_frame,
                                  start_tc.t.strict),
                  forward, start_tc.t.fps, strict_24h)
    ELSE IF end_tc.k = "tc"
    THEN FromEnds(DefaultTimecode(start_tc, end_tc.t.fps, end_tc.t.drop_frame,
                                  end_tc.t.strict),
                  Ok(end_tc.t), forward, end_tc.t.fps, strict_24h)
    ELSE FromEnds(DefaultTimecode(start_tc, fps, FALSE, TRUE),
                  DefaultTimecode(end_tc, fps, FALSE, TRUE),
                  forward, fps, strict_24h)

end_precise_time(r) ==
    IF r.forward THEN RAdd(r.start_precise_time, r.precise_duration)
    ELSE RSub(r.start_precise_time, r.precise_duration)

\* the outcome of a call on r with the argument range o (NoTr if none)
Done(res, r, o) ==
    [err |-> res.err, val |-> res.val, self |-> r, other |-> o]

ArgRange(value) == IF value.k = "range" THEN value.r ELSE NoTr

\* the seconds an argument stands for: a Timecode's timestamp, or that of
\* the Timecode made of the argument
ArgSeconds(r, value) ==
    LET Stamp(t) == IF t.err # "none" THEN t
                    ELSE [err |-> "none", val |-> t.val.precise_time]
    IN  IF value.k = "tc" THEN Ok(value.t.precise_time)
        ELSE Stamp(DefaultTimecode(value, r.fps, FALSE, TRUE))

offset(r, offset_value) ==
    LET Caught(res) ==
            IF res.err # "none" THEN RangeRaise("DFTTTimeRangeMethodError")
            ELSE res
        Moved(new_start) ==
            Caught(NewRange(IF r.strict_24h
                            THEN ModInt(new_start, TIME_24H_SECONDS)
                            ELSE new_start,
                            r.precise_duration, r.forward, r.fps, r.strict_24h))
        By(offset_precise) ==
            IF offset_precise.err # "none"
            THEN RangeRaise("DFTTTimeRangeMethodError")
            ELSE Moved(RAdd(r.start_precise_time, offset_precise.val))
    IN  Done(By(IF offset_value.k = "sec" THEN Ok(offset_value.v)
                ELSE ArgSeconds(r, offset_value)),
             r, NoTr)

\* The error logs of extend and retime format a Fraction with ':.3f', which
\* Fraction takes from Python 3.12 on and which raises TypeError before
\* that; fraction_format tells which of the two the interpreter does.
extend(r, extend_value, fraction_format) ==
    LET Grown(new_duration) ==
            IF new_duration = RZero THEN RangeRaise("DFTTTimeRangeValueError")
            ELSE IF /\ r.strict_24h
                    /\ RLt(RInt(TIME_24H_SECONDS), RAbs(new_duration))
            THEN IF fraction_format THEN RangeRaise("DFTTTimeRangeValueError")
                 ELSE RangeRaise("DFTTTimeRangeMethodError")
            ELSE NewRange(r.start_precise_time, new_duration, r.forward, r.fps,
                          r.strict_24h)
        By(extend_precise) ==
            IF extend_precise.err # "none"
            THEN RangeRaise("DFTTTimeRangeMethodError")
            ELSE Grown(RAdd(r.precise_duration,
                            IF r.forward THEN extend_precise.val
                            ELSE RNeg(extend_precise.val)))
    IN  Done(By(IF extend_value.k \in {"int", "sec"}
                THEN Ok(OperandValue(extend_value))
                ELSE ArgSeconds(r, extend_value)),
             r, NoTr)

shorten(r, shorten_value, fraction_format) ==
    extend(r,
           CASE shorten_value.k = "int" -> IntArg(-shorten_value.n)
             [] shorten_value.k = "sec" -> SecArg(RNeg(shorten_value.v))
             [] OTHER -> shorten_value,
           fraction_format)

\* a reverse that turns the receiver around in place
reverse_in_place(r) ==
    LET Turned(res) ==
            [err |-> res.err, val |-> res.val,
             self |-> IF res.err = "none" THEN res.val ELSE r, other |-> NoTr]
    IN  Turned(NewRange(end_precise_time(r), r.precise_duration, ~r.forward,
                        r.fps, r.strict_24h))

reverse(r) ==
    Done(NewRange(end_precise_time(r), r.precise_duration, ~r.forward, r.fps,
                  r.strict_24h),
         r, NoTr)

retime(r, retime_factor, fraction_format) ==
    LET Scaled(new_duration) ==
            IF /\ r.strict_24h
               /\ RLt(RInt(TIME_24H_SECONDS), RAbs(new_duration))
            THEN IF fraction_format THEN RangeRaise("DFTTTimeRangeValueError")
                 ELSE RangeRaise("TypeError")
            ELSE NewRange(r.start_precise_time, new_duration, r.forward, r.fps,
                          r.strict_24h)
    IN  Done(IF retime_factor.k \notin {"int", "sec"}
             THEN RangeRaise("DFTTTimeRangeTypeError")
             ELSE IF OperandValue(retime_factor) = RZero
             THEN RangeRaise("DFTTTimeRangeValueError")
             ELSE Scaled(RMul(r.precise_duration, OperandValue(retime_factor))),
             r, NoTr)

\* the list of parts, or the error of the first part that cannot be made
\* separate with every part placed after the one before, whatever the
\* direction
separate_forwards(r, num_parts) ==
    LET Parts(part_duration) ==
            [i \in 1 .. num_parts |->
                NewRange(RAdd(r.start_precise_time,
                              RMul(RInt(i - 1), part_duration)),
                         part_duration, r.forward, r.fps, r.strict_24h)]
        List(parts) ==
            IF \E i \in 1 .. num_parts : parts[i].err # "none"
            THEN RangeRaise(parts[CHOOSE i \in 1 .. num_parts :
                                      /\ parts[i].err # "none"
                                      /\ \A j \in 1 .. i - 1 :
                                             parts[j].err = "none"].err)
            ELSE Ok([i \in 1 .. num_parts |-> parts[i].val])
    IN  Done(IF num_parts < 2 THEN RangeRaise("DFTTTimeRangeValueError")
             ELSE List(Parts(RDiv(r.precise_duration, RInt(num_parts)))),
             r, NoTr)

separate(r, num_parts) ==
    LET Parts(part_duration) ==
            [i \in 1 .. num_parts |->
                NewRange(RAdd(r.start_precise_time,
                              IF r.forward
                              THEN RMul(RInt(i - 1), part_duration)
                              ELSE RMul(RInt(1 - i), part_duration)),
                         part_duration, r.forward, r.fps, r.strict_24h)]
        List(parts) ==
            IF \E i \in 1 .. num_parts : parts[i].err # "none"
            THEN RangeRaise(parts[CHOOSE i \in 1 .. num_parts :
                                      /\ parts[i].err # "none"
                                      /\ \A j \in 1 .. i - 1 :
                                             parts[j].err = "none"].err)
            ELSE Ok([i \in 1 .. num_parts |-> parts[i].val])
    IN  Done(IF num_parts < 2 THEN RangeRaise("DFTTTimeRangeValueError")
             ELSE List(Parts(RDiv(r.precise_duration, RInt(num_parts)))),
             r, NoTr)

\* contains for a Timecode item
ContainsTime(r, item_time) ==
    IF r.forward
    THEN RLe(r.start_precise_time, item_time)
         /\ RLe(item_time, end_precise_time(r))
    ELSE RLe(end_precise_time(r), item_time)
         /\ RLe(item_time, r.start_precise_time)

contains(r, item, strict_forward) ==
    LET At(t) == IF t.err = "none" THEN Ok(ContainsTime(r, t.val.precise_time))
                 ELSE IF t.err \in DFTTErrors
                 THEN RangeRaise("DFTTTimeRangeTypeError")
                 ELSE RangeRaise(t.err)
        Wrapped(v) == NewFromSeconds(v, "time", r.fps, FALSE, TRUE).val.precise_time
    IN  Done(CASE item.k = "tc" -> Ok(ContainsTime(r, item.t.precise_time))
               [] item.k = "range" ->
                    IF strict_forward /\ item.r.forward # r.forward
                    THEN Ok(FALSE)
                    ELSE Ok(/\ ContainsTime(
                                   r, Wrapped(item.r.start_precise_time))
                            /\ ContainsTime(
                                   r, Wrapped(end_precise_time(item.r))))
               [] OTHER -> At(DefaultTimecode(item, r.fps, FALSE, TRUE)),
             r, ArgRange(item))

\* the overlap taken from the start of the receiver
OverlapFromStart(r, o) ==
    LET Between(start, end) ==
            IF (r.forward /\ RLe(end, start)) \/ (~r.forward /\ RLe(start, end))
            THEN Ok(NoTr)
            ELSE NewRange(start,
                          IF r.forward THEN RSub(end, start)
                          ELSE RSub(start, end),
                          r.forward, r.fps, r.strict_24h /\ o.strict_24h)
    IN  IF r.forward
        THEN Between(r.start_precise_time,
                     RMin(end_precise_time(r), end_precise_time(o)))
        ELSE Between(r.start_precise_time,
                     RMax(end_precise_time(r), end_precise_time(o)))

\* the overlap of two ranges of one direction and one rate, None if empty
Overlap(r, o) ==
    LET Between(start, end) ==
            IF (r.forward /\ RLe(end, start)) \/ (~r.forward /\ RLe(start, end))
            THEN Ok(NoTr)
            ELSE NewRange(start,
                          IF r.forward THEN RSub(end, start)
                          ELSE RSub(start, end),
                          r.forward, r.fps, r.strict_24h /\ o.strict_24h)
    IN  IF r.forward
        THEN Between(RMax(r.start_precise_time, o.start_precise_time),
                     RMin(end_precise_time(r), end_precise_time(o)))
        ELSE Between(RMin(r.start_precise_time, o.start_precise_time),
                     RMax(end_precise_time(r), end_precise_time(o)))

intersect(r, other) ==
    Done(IF other.k # "range" THEN RangeRaise("DFTTTimeRangeTypeError")
         ELSE IF r.forward # other.r.forward
         THEN RangeRaise("DFTTTimeRangeMethodError")
         ELSE IF r.fps # other.r.fps THEN RangeRaise("DFTTTimeRangeFPSError")
         ELSE Overlap(r, other.r),
         r, ArgRange(other))

\* the span of two ranges of one direction and one rate
Span(r, o) ==
    LET Between(start, end) ==
            NewRange(start,
                     IF r.forward THEN RSub(end, start) ELSE RSub(start, end),
                     r.forward, r.fps, r.strict_24h /\ o.strict_24h)
    IN  IF r.forward
        THEN Between(RMin(r.start_precise_time, o.start_precise_time),
                     RMax(end_precise_time(r), end_precise_time(o)))
        ELSE Between(RMax(r.start_precise_time, o.start_precise_time),
                     RMin(end_precise_time(r), end_precise_time(o)))


\* union that takes two ranges that only touch for ranges with a gap
union_of_overlapping(r, other) ==
    LET Joined(overlap) ==
            IF overlap.err # "none" THEN overlap
            ELSE IF overlap.val = NoTr
            THEN RangeRaise("DFTTTimeRangeMethodError")
            ELSE Span(r, other.r)
    IN  Done(IF other.k # "range" THEN RangeRaise("DFTTTimeRangeTypeError")
             ELSE IF r.forward # other.r.forward
             THEN RangeRaise("DFTTTimeRangeMethodError")
             ELSE IF r.fps # other.r.fps
             THEN RangeRaise("DFTTTimeRangeFPSError")
             ELSE Joined(Overlap(r, other.r)),
             r, ArgRange(other))
union(r, other) ==
    LET Joined(overlap) ==
            IF overlap.err # "none" THEN overlap
            ELSE IF /\ overlap.val = NoTr
                    /\ end_precise_time(r) # other.r.start_precise_time
                    /\ end_precise_time(other.r) # r.start_precise_time
            THEN RangeRaise("DFTTTimeRangeMethodError")
            ELSE Span(r, other.r)
    IN  Done(IF other.k # "range" THEN RangeRaise("DFTTTimeRangeTypeError")
             ELSE IF r.forward # other.r.forward
             THEN RangeRaise("DFTTTimeRangeMethodError")
             ELSE IF r.fps # other.r.fps
             THEN RangeRaise("DFTTTimeRangeFPSError")
             ELSE Joined(Overlap(r, other.r)),
             r, ArgRange(other))

\* add for sign = 1 and subtract for sign = -1

\* add and subtract that take no account of the directions
CombinedAnyDirection(r, other, sign) ==
    LET Sum(new_duration) ==
            IF new_duration = RZero THEN RangeRaise("DFTTTimeRangeValueError")
            ELSE NewRange(r.start_precise_time, new_duration, r.forward, r.fps,
                          r.strict_24h)
    IN  Done(IF other.k # "range" THEN RangeRaise("DFTTTimeRangeTypeError")
             ELSE IF r.fps # other.r.fps
             THEN RangeRaise("DFTTTimeRangeFPSError")
             ELSE Sum(IF sign = 1
                      THEN RAdd(r.precise_duration, other.r.precise_duration)
                      ELSE RSub(r.precise_duration, other.r.precise_duration)),
             r, ArgRange(other))
Combined(r, other, sign) ==
    LET Sum(new_duration) ==
            IF new_duration = RZero THEN RangeRaise("DFTTTimeRangeValueError")
            ELSE NewRange(r.start_precise_time, new_duration, r.forward, r.fps,
                          r.strict_24h)
    IN  Done(IF other.k # "range" THEN RangeRaise("DFTTTimeRangeTypeError")
             ELSE IF r.fps # other.r.fps
             THEN RangeRaise("DFTTTimeRangeFPSError")
             ELSE Sum(IF (r.forward = other.r.forward) = (sign = 1)
                      THEN RAdd(r.precise_duration, other.r.precise_duration)
                      ELSE RSub(r.precise_duration, other.r.precise_duration)),
             r, ArgRange(other))

\* r == other for two ranges
range_eq(r, other) ==
    /\ r.start_precise_time = other.start_precise_time
    /\ r.precise_duration = other.precise_duration
    /\ r.forward = other.forward
    /\ r.fps = other.fps

range_add(r, other) == Combined(r, other, 1)

subtract(r, other) == Combined(r, other, -1)

\* the operators: +, - with a range are add and subtract, + with any other
\* value is offset, * is retime, & is intersect and | is union; - with a
\* number offsets by its negation and / retimes by the reciprocal
range_sub(r, other) ==
    IF other.k = "range" THEN subtract(r, other)
    ELSE offset(r, CASE other.k = "int" -> IntArg(-other.n)
                     [] other.k = "sec" -> SecArg(RNeg(other.v))
                     [] OTHER -> other)

range_truediv(r, factor, fraction_format) ==
    IF factor.k \notin {"int", "sec"} THEN Done(RangeRaise("TypeError"), r, NoTr)
    ELSE IF OperandValue(factor) = RZero
    THEN Done(RangeRaise("ZeroDivisionError"), r, NoTr)
    ELSE retime(r, SecArg(RInv(OperandValue(factor))), fraction_format)

\* the first Timecodes __iter__ yields, at most MaxIter of them: in either
\* direction the i-th is yielded while (i - 1) / fps < precise_duration
iter(r) ==
    LET frame_duration == RInv(r.fps)
        Yielded(i) ==
            NewFromSeconds(
                RAdd(r.start_precise_time,
                     IF r.forward THEN RMul(RInt(i - 1), frame_duration)
                     ELSE RMul(RInt(1 - i), frame_duration)),
                "time", r.fps, FALSE, TRUE).val
        Within(i) == RLt(RMul(RInt(i - 1), frame_duration), r.precise_duration)
    IN  Done(Ok([i \in {j \in 1 .. MaxIter : Within(j)} |-> Yielded(i)]),
             r, NoTr)

----------------------------------------------------------------------------
(* The calls a client makes on TimeRanges.  The client holds two          *)
(* Timecodes in tc and two ranges in tr; it constructs the ranges, then    *)
(* calls methods on tr[1], with tr[2] as the argument of those that take a *)
(* range.  A call that returns a range binds it to the receiver's          *)
(* variable.                                                               *)

RangeCall(op, a, b, arg, res) ==
    [op |-> op, err |-> res.err, a |-> a, b |-> b, arg |-> arg,
     val |-> res.val, self |-> res.self, other |-> res.other]

Junk == StrArg([k |-> "junk"])

Midnight == StrArg(Hms(FALSE, 0, 0, 0, ":", 0, 2))

HalfDay == 12 * 3600

RangeStarts == {RZero, RInt(HalfDay)}

RangeDurations ==
    {RInt(-HalfDay), RZero, RInt(HalfDay \div 2), RInt(HalfDay),
     RInt(2 * HalfDay), RInt(3 * HalfDay)}

TcArg(t) == [k |-> "tc", t |-> t]

RangeArg(r) == [k |-> "range", r |-> r]

InitRange ==
    /\ tc = << NewTimecode(StrArg(Hms(FALSE, 12, 0, 0, ":", 0, 2)), "auto",
                           RInt(24), FALSE, TRUE).val,
               NewTimecode(StrArg(Hms(FALSE, 12, 0, 0, ":", 0, 2)), "auto",
                           RInt(25), FALSE, TRUE).val >>
    /\ tr = [i \in Slots |-> NoTr]
    /\ last = RangeCall("init", 0, 0, IntArg(0), Done(RangeRaise("none"), NoTr, NoTr))
    /\ steps = 0
    /\ io = NoIo

\* r = DfttTimeRange(...)
Construct(dst, arg, res) ==
    /\ steps = 0
    /\ tr[dst] = NoTr
    /\ tr' = IF res.err = "none" THEN [tr EXCEPT ![dst] = res.val] ELSE tr
    /\ last' = RangeCall("new", dst, 0, arg, Done(res, NoTr, NoTr))
    /\ UNCHANGED <<tc, steps, io>>

\* the arguments of a construction, as the call gave them
SpanArgs(start_precise_time, precise_duration, forward, strict_24h) ==
    [k |-> "span", start |-> start_precise_time, duration |-> precise_duration,
     forward |-> forward, strict_24h |-> strict_24h]

EndsArgs(start_tc, end_tc, forward, strict_24h) ==
    [k |-> "ends", start_tc |-> start_tc, end_tc |-> end_tc,
     forward |-> forward, strict_24h |-> strict_24h]

NewTimeRange(dst) ==
    \E start_precise_time \in RangeStarts, precise_duration \in RangeDurations,
       strict_24h \in BOOLEAN :
        Construct(dst,
                  SpanArgs(start_precise_time, precise_duration, TRUE,
                           strict_24h),
                  NewRange(start_precise_time, precise_duration, TRUE,
                           RInt(24), strict_24h))

NewFromTimecodes(dst) ==
    \E start_tc \in {TcArg(tc[1]), TcArg(tc[2]), Midnight},
       end_tc \in {TcArg(tc[1]), Midnight, Junk},
       forward \in BOOLEAN, strict_24h \in BOOLEAN :
        Construct(dst, EndsArgs(start_tc, end_tc, forward, strict_24h),
                  init_from_timecodes(start_tc, end_tc, forward, RInt(24),
                                      strict_24h))

\* a call on the range tr[a], with the range tr[b] as argument unless b = 0
RangeOp(name, a, b, arg, res, rebinds) ==
    /\ steps < MaxRangeOps
    /\ tr' = IF rebinds /\ res.err = "none" /\ res.val # NoTr
             THEN [tr EXCEPT ![a] = res.val]
             ELSE IF b = 0 \/ b = a THEN [tr EXCEPT ![a] = res.self]
             ELSE [tr EXCEPT ![a] = res.self, ![b] = res.other]
    /\ last' = RangeCall(name, a, b, arg, res)
    /\ steps' = steps + 1
    /\ UNCHANGED <<tc, io>>

Offset(a) ==
    /\ tr[a] # NoTr
    /\ \E v \in {SecArg(RInt(HalfDay)), FracArg(RInt(-1)), IntArg(24),
                  IntArg(-24), TcArg(tc[1]), Junk} :
           RangeOp("offset", a, 0, v, offset(tr[a], v), TRUE)

Extend(a) ==
    /\ tr[a] # NoTr
    /\ \E v \in {IntArg(-HalfDay), IntArg(2 * HalfDay), TcArg(tc[1]), Junk},
          fraction_format \in BOOLEAN :
           RangeOp("extend", a, 0, v, extend(tr[a], v, fraction_format), TRUE)

Shorten(a) ==
    /\ tr[a] # NoTr
    /\ \E v \in {IntArg(HalfDay), SecArg(RInt(-2 * HalfDay)), TcArg(tc[1])},
          fraction_format \in BOOLEAN :
           RangeOp("shorten", a, 0, v, shorten(tr[a], v, fraction_format),
                   TRUE)

Reverse(a) ==
    /\ tr[a] # NoTr
    /\ RangeOp("reverse", a, 0, IntArg(0), reverse(tr[a]), TRUE)

Retime(a) ==
    /\ tr[a] # NoTr
    /\ \E v \in {IntArg(0), IntArg(3), SecArg(Frac(1, 2)), Junk},
          fraction_format \in BOOLEAN :
           RangeOp("retime", a, 0, v, retime(tr[a], v, fraction_format), TRUE)

Separate(a) ==
    /\ tr[a] # NoTr
    /\ \E num_parts \in 1 .. 3 :
           RangeOp("separate", a, 0, IntArg(num_parts),
                   separate(tr[a], num_parts), FALSE)

Contains(a, b) ==
    /\ tr[a] # NoTr /\ tr[b] # NoTr
    /\ \/ \E strict_forward \in BOOLEAN :
              RangeOp("contains", a, b,
                      [k |-> "range", r |-> tr[b],
                       strict_forward |-> strict_forward],
                      contains(tr[a], RangeArg(tr[b]), strict_forward), FALSE)
       \/ \E v \in {TcArg(tc[1]), IntArg(0), Junk} :
              RangeOp("contains", a, 0, v, contains(tr[a], v, FALSE), FALSE)

\* the argument of a call taking a range: tr[b], or a number when b = 0
Others(b) ==
    IF b = 0 THEN {IntArg(1)}
    ELSE IF tr[b] = NoTr THEN {} ELSE {RangeArg(tr[b])}

Intersect(a, b) ==
    /\ tr[a] # NoTr
    /\ \E o \in Others(b) :
           RangeOp("intersect", a, b, o, intersect(tr[a], o), TRUE)

Union(a, b) ==
    /\ tr[a] # NoTr
    /\ \E o \in Others(b) : RangeOp("union", a, b, o, union(tr[a], o), TRUE)

AddRange(a, b) ==
    /\ tr[a] # NoTr
    /\ \E o \in Others(b) : RangeOp("add", a, b, o, range_add(tr[a], o), TRUE)

\* tr[a].subtract(o) and tr[a] - o; the operator also with rational seconds
\* and with a Timecode
SubtractRange(a, b) ==
    /\ tr[a] # NoTr
    /\ \/ \E o \in Others(b) :
              \/ RangeOp("subtract", a, b, o, subtract(tr[a], o), TRUE)
              \/ RangeOp("sub", a, b, o, range_sub(tr[a], o), TRUE)
       \/ /\ b = 0
          /\ \E o \in {FracArg(RInt(1)), TcArg(tc[1])} :
                 RangeOp("sub", a, b, o, range_sub(tr[a], o), TRUE)

TrueDivRange(a) ==
    /\ tr[a] # NoTr
    /\ \E v \in {IntArg(0), IntArg(2), SecArg(Frac(1, 4))},
          fraction_format \in BOOLEAN :
           RangeOp("truediv", a, 0, v, range_truediv(tr[a], v, fraction_format),
                   TRUE)

Iterate(a) ==
    /\ tr[a] # NoTr
    /\ RangeOp("iter", a, 0, IntArg(0), iter(tr[a]), FALSE)

NextRange ==
    \/ \E dst \in Slots : NewTimeRange(dst) \/ NewFromTimecodes(dst)
    \/ Offset(1)
    \/ Extend(1)
    \/ Shorten(1)
    \/ Reverse(1)
    \/ Retime(1)
    \/ Separate(1)
    \/ TrueDivRange(1)
    \/ Iterate(1)
    \/ \E b \in {0, 2} :
           \/ Intersect(1, b)
           \/ Union(1, b)
           \/ AddRange(1, b)
           \/ SubtractRange(1, b)
    \/ Contains(1, 2)

SpecRange == InitRange /\ [][NextRange]_vars

----------------------------------------------------------------------------
(* Parsing an SMPTE string and rendering the Timecode parsed as smpte.  io *)
(* holds the arguments of the constructor call, its outcome and the string *)
(* timecode_output returns.                                                *)

NonDropRates ==
    {Frac(23976, 1000), RInt(24), RInt(25), Frac(2997, 100), RInt(30),
     Frac(5994, 100), Frac(11988, 100)}

DropRates == {Frac(2997, 100), Frac(5994, 100), Frac(11988, 100)}

Nominal(fps) == RCeil(fps)

\* the frame numbers left out at the start of a minute: 2 at 29.97, 4 at
\* 59.94 and 8 at 119.88
DroppedPerMinute(fps) == (2 * Nominal(fps)) \div 30

SmpteHours == {0, 23}

SmpteMinutes == {0, 1, 10}

SmpteSeconds == {0, 59}

SmpteFrames(fps) == {0, 1, 3, 7, 8, Nominal(fps) - 1}

\* HH:MM:SS:FF or HH:MM:SS;FF, the frame field of 2 digits below 100 fps
\* and of 3 from there
SmpteStrings(fps, sep) ==
    {Hms(FALSE, hh, mm, ss, sep, ff, IF RLt(fps, RInt(100)) THEN 2 ELSE 3) :
         hh \in SmpteHours, mm \in SmpteMinutes, ss \in SmpteSeconds,
         ff \in SmpteFrames(fps)}

\* a frame number that drop-frame counting leaves out
Dropped(fps, s) ==
    s.mm % 10 # 0 /\ s.ss = 0 /\ s.ff < DroppedPerMinute(fps)

SmpteCall(ty, fps, drop_frame, s) ==
    [pc |-> "start", type |-> ty, fps |-> fps, drop_frame |-> drop_frame,
     s |-> s, t |-> Ok(NoTc), out |-> Ok(NoIo)]

SmpteCalls ==
    UNION {{SmpteCall(ty, fps, FALSE, s) :
                ty \in {"auto", "smpte"}, s \in SmpteStrings(fps, ":")} :
               fps \in NonDropRates}
    \cup
    UNION {{SmpteCall(ty, fps, TRUE, s) :
                ty \in {"auto", "smpte"},
                s \in {x \in SmpteStrings(fps, ";") : ~Dropped(fps, x)}} :
               fps \in DropRates}

InitSmpte ==
    /\ io \in SmpteCalls
    /\ tc = <<>>
    /\ tr = <<>>
    /\ last = Call("init", "none", 0, 0, 0, NoTc)
    /\ steps = 0

\* t = DfttTimecode(s, type, fps, drop_frame, True)
ParseSmpte ==
    /\ io.pc = "start"
    /\ io' = [io EXCEPT !.pc = "parsed",
                        !.t = NewTimecode(StrArg(io.s), io.type, io.fps,
                                          io.drop_frame, TRUE)]
    /\ UNCHANGED <<tc, tr, last, steps>>

\* t.timecode_output('smpte')
RenderSmpte ==
    /\ io.pc = "parsed"
    /\ io.t.err = "none"
    /\ io' = [io EXCEPT !.pc = "rendered",
                        !.out = timecode_output(io.t.val, "smpte", 0)]
    /\ UNCHANGED <<tc, tr, last, steps>>

NextSmpte == ParseSmpte \/ RenderSmpte

SpecSmpte == InitSmpte /\ [][NextSmpte]_vars

----------------------------------------------------------------------------
(* Parsing a string of a given type and rendering the Timecode parsed in   *)
(* a type, for FCPX strings, for drop-frame SMPTE strings at the start of  *)
(* a minute, for FFmpeg strings and for strings that do not match the type *)
(* declared.                                                               *)

Fcpx(num, den) ==
    [k |-> "fcpx", neg |-> FALSE, num |-> num, den |-> den, hasden |-> TRUE]

FcpxNumerators == {0, 1, 5, 7, 1001, 86399}

FcpxDenominators == {2, 3, 24, 30000}

\* 'N/Ds' in lowest terms with D > 1, and 'Ns'
FcpxStrings ==
    {Fcpx(p[1], p[2]) :
         p \in {q \in FcpxNumerators \X FcpxDenominators :
                    GCD(q[1], q[2]) = 1}}
    \cup {Num(RInt(n), FALSE, "s") : n \in FcpxNumerators}

ParseCall(ty, fps, drop_frame, s, dest) ==
    [pc |-> "start", type |-> ty, fps |-> fps, drop_frame |-> drop_frame,
     s |-> s, dest |-> dest, t |-> Ok(NoTc), out |-> Ok(NoIo)]

FcpxCalls ==
    {ParseCall(ty, fps, FALSE, s, "fcpx") :
         ty \in {"auto", "fcpx"}, fps \in {RInt(24), Frac(2997, 100)},
         s \in FcpxStrings}

\* HH:MM:00;FF of a minute that is no multiple of ten, FF from 0 to the
\* first frame number that is not left out
MinuteStarts(fps) ==
    {Hms(FALSE, hh, mm, 0, ";", ff, IF RLt(fps, RInt(100)) THEN 2 ELSE 3) :
         hh \in SmpteHours, mm \in {1, 9, 11},
         ff \in 0 .. DroppedPerMinute(fps)}

MinuteStartCalls ==
    UNION {{ParseCall(ty, fps, TRUE, s, "smpte") :
                ty \in {"auto", "smpte"}, s \in MinuteStarts(fps)} :
               fps \in DropRates}

\* HH:MM:SS.d1...dk, the k digits given by their value and their number
FfmpegStrings ==
    {Hms(FALSE, hh, 1, 1, ".", p[1], p[2]) :
         hh \in {0, 25},
         p \in {<<5, 1>>, <<5, 2>>, <<50, 2>>, <<0, 2>>, <<5, 3>>, <<125, 3>>}}

FfmpegCalls ==
    {ParseCall(ty, RInt(24), FALSE, s, "ffmpeg") :
         ty \in {"auto", "ffmpeg"}, s \in FfmpegStrings}

\* a string of no format, 'N/s' and '1/0s', and an SRT string, each under
\* every declared type, 'auto' and a type that is no format
MismatchCalls ==
    {ParseCall(ty, RInt(24), FALSE, s, "time") :
         ty \in Types \cup {"auto", "bogus"},
         s \in {[k |-> "junk"], [Fcpx(1, 0) EXCEPT !.hasden = FALSE],
                Fcpx(1, 0), Hms(FALSE, 1, 0, 0, ",", 0, 3)}}

InitParse ==
    /\ io \in FcpxCalls \cup MinuteStartCalls \cup FfmpegCalls \cup MismatchCalls
    /\ tc = <<>>
    /\ tr = <<>>
    /\ last = Call("init", "none", 0, 0, 0, NoTc)
    /\ steps = 0

\* t = DfttTimecode(s, type, fps, drop_frame, True)
ParseString ==
    /\ io.pc = "start"
    /\ io' = [io EXCEPT !.pc = "parsed",
                        !.t = NewTimecode(StrArg(io.s), io.type, io.fps,
                                          io.drop_frame, TRUE)]
    /\ UNCHANGED <<tc, tr, last, steps>>

\* t.timecode_output(dest)
RenderString ==
    /\ io.pc = "parsed"
    /\ io.t.err = "none"
    /\ io' = [io EXCEPT !.pc = "rendered",
                        !.out = timecode_output(io.t.val, io.dest, 0)]
    /\ UNCHANGED <<tc, tr, last, steps>>

NextParse == ParseString \/ RenderString

SpecParse == InitParse /\ [][NextParse]_vars

----------------------------------------------------------------------------
(* Frames to seconds: Timecodes constructed from a frame count, with the   *)
(* quotient frame_index / fps as Python computes it.  An fps given as int  *)
(* or float makes it a binary64 division, whose result is the double       *)
(* nearest to the quotient; an fps given as Fraction makes it exact.  The  *)
(* double is kept as the exact quotient and the rounding error             *)
(* n / (d * 2^e).                                                          *)

\* the exponent of a / b >= 1: the largest e with b * 2^e <= a
RECURSIVE Log2Floor(_, _)
Log2Floor(a, b) == IF a < 2 * b THEN 0 ELSE 1 + Log2Floor(a, 2 * b)

\* minus the exponent of a / b < 1: the smallest j with a * 2^j >= b
RECURSIVE Log2Below(_, _)
Log2Below(a, b) == IF a >= b THEN 0 ELSE 1 + Log2Below(2 * a, b)

\* 2^k mod m
RECURSIVE PowMod(_, _)
PowMod(k, m) == IF k = 0 THEN 1 % m ELSE (2 * PowMod(k - 1, m)) % m

Mantissa == 52

NoError == [n |-> 0, d |-> 1, e |-> 0]

\* float(a) / float(b) for integers a >= 0 and b > 0 in lowest terms:
\* a / b * 2^k is rounded to the nearest integer of 53 bits
Binary64Quotient(a, b) ==
    LET Rounded(k, r) ==
            IF r = 0 THEN NoError
            ELSE IF 2 * r < b THEN [n |-> -r, d |-> b, e |-> k]
            ELSE [n |-> b - r, d |-> b, e |-> k]
        Scaled(k) == Rounded(k, ((a % b) * PowMod(k, b)) % b)
    IN  IF a = 0 THEN NoError
        ELSE IF a >= b THEN Scaled(Mantissa - Log2Floor(a, b))
        ELSE Scaled(Mantissa + Log2Below(a, b))

\* Fraction(frame_index / fps), for an integer frame_index >= 0 and an fps
\* that is a Fraction, or an int or float of integer value
true_division(frame_index, fps, fps_type) ==
    LET Lowest(a, b, g) == Binary64Quotient(a \div g, b \div g)
    IN  [exact |-> RDiv(frame_index, fps),
         error |-> IF fps_type = "Fraction" THEN NoError
                   ELSE Lowest(frame_index.i, fps.i,
                               GCD(frame_index.i, fps.i))]

\* round(precise_time * fps): the error of precise_time, times fps, is
\* below 2^-20 and moves the product across no half but one it lies on
framecount(precise_time, fps) ==
    LET Near(y) ==
            IF 2 * y.n = y.d /\ precise_time.error.n > 0 THEN y.i + 1
            ELSE IF 2 * y.n = y.d /\ precise_time.error.n < 0 THEN y.i
            ELSE RRound(y)
    IN  Near(RMul(precise_time.exact, fps))

FrameRates ==
    {[type |-> "int", fps |-> RInt(24)], [type |-> "int", fps |-> RInt(25)],
     [type |-> "float", fps |-> RInt(30)],
     [type |-> "Fraction", fps |-> RInt(24)],
     [type |-> "Fraction", fps |-> Frac(30000, 1001)]}

\* frame counts below one day of frames
FrameCounts(fps) ==
    {0, 1, 2, 3, 8, 24, 25, 1001, 30000,
     RCeil(RMul(fps, RInt(Day))) - 1}

FrameCall(n, rate, ty, drop_frame, strict) ==
    [pc |-> "start", n |-> n, fps |-> rate.fps, fps_type |-> rate.type,
     type |-> ty, drop_frame |-> drop_frame, strict |-> strict,
     t |-> Ok(NoTc), precise_timestamp |-> NoIo, framecount |-> -1]

InitFrames ==
    /\ io \in UNION {{FrameCall(n, rate, ty, drop_frame, strict) :
                         n \in FrameCounts(rate.fps), ty \in {"frame", "auto"},
                         drop_frame \in BOOLEAN, strict \in BOOLEAN} :
                        rate \in FrameRates}
    /\ tc = <<>>
    /\ tr = <<>>
    /\ last = Call("init", "none", 0, 0, 0, NoTc)
    /\ steps = 0

\* t = DfttTimecode(n, type, fps, drop_frame, strict); t.precise_timestamp
NewFromFrames ==
    LET Made(t) ==
            [io EXCEPT !.pc = "made",
                       !.t = NewFromInt(io.n, io.type, io.fps, io.drop_frame,
                                        io.strict),
                       !.precise_timestamp =
                           true_division(IF t.strict
                                         THEN RMod(RInt(io.n), StrictFrames(t))
                                         ELSE RInt(io.n),
                                         io.fps, io.fps_type)]
    IN  /\ io.pc = "start"
        /\ io' = Made(init_common(io.type, io.fps, io.drop_frame, io.strict))
        /\ UNCHANGED <<tc, tr, last, steps>>

\* t.framecount
Framecount ==
    /\ io.pc = "made"
    /\ io' = [io EXCEPT !.pc = "read",
                        !.framecount = framecount(io.precise_timestamp, io.fps)]
    /\ UNCHANGED <<tc, tr, last, steps>>

NextFrames == NewFromFrames \/ Framecount

SpecFrames == InitFrames /\ [][NextFrames]_vars

----------------------------------------------------------------------------
(* Iteration of a TimeRange, one step of the generator at a time.  The     *)
(* client constructs a range, reads its len() and iterates it twice; io    *)
(* holds the range, the generator's current_time and the Timecodes         *)
(* yielded so far.                                                         *)

\* framecount: int(round(float(abs(precise_duration)) * fps))
range_framecount(r) == RRound(RMul(RAbs(r.precise_duration), r.fps))

\* starts inside one day, before 0 and just below 86400 seconds
IterStarts == {RZero, Frac(1, 3), Frac(-1, 24), RSub(RInt(Day), Frac(1, 24))}

\* durations of a whole number of frames and of a fraction of one
IterDurations == {Frac(1, 8), Frac(1, 10), Frac(1, 16), Frac(1, 96), Frac(-1, 8)}

IterCall(start, duration, forward, fps, strict_24h) ==
    [pc |-> "start", start_precise_time |-> start,
     precise_duration |-> duration, forward |-> forward, fps |-> fps,
     strict_24h |-> strict_24h, r |-> Ok(NoTr), len |-> -1, pass |-> 0,
     current_time |-> RZero, first |-> <<>>, yielded |-> <<>>]

InitIter ==
    /\ io \in {IterCall(start, duration, forward, RInt(fps), strict_24h) :
                  start \in IterStarts, duration \in IterDurations,
                  forward \in BOOLEAN, fps \in {24, 25},
                  strict_24h \in BOOLEAN}
    /\ tc = <<>>
    /\ tr = <<>>
    /\ last = Call("init", "none", 0, 0, 0, NoTc)
    /\ steps = 0

\* r = DfttTimeRange(start_precise_time=..., precise_duration=..., ...)
NewIterated ==
    LET Made(r) == [io EXCEPT !.pc = IF r.err = "none" THEN "made" ELSE "raised",
                              !.r = r]
    IN  /\ io.pc = "start"
        /\ io' = Made(NewRange(io.start_precise_time, io.precise_duration,
                               io.forward, io.fps, io.strict_24h))
        /\ UNCHANGED <<tc, tr, last, steps>>

\* len(r)
RangeLen ==
    /\ io.pc = "made"
    /\ io' = [io EXCEPT !.pc = "counted", !.len = range_framecount(io.r.val)]
    /\ UNCHANGED <<tc, tr, last, steps>>

\* iter(r), a first and a second time: the generator starts at the start
Iter ==
    /\ io.pc = "counted" \/ (io.pc = "done" /\ io.pass = 1)
    /\ io' = [io EXCEPT !.pc = "loop", !.pass = io.pass + 1,
                        !.current_time = io.r.val.start_precise_time,
                        !.first = io.yielded, !.yielded = <<>>]
    /\ UNCHANGED <<tc, tr, last, steps>>

\* the condition of the while loop of __iter__
IterWithin(r, current_time) ==
    IF r.forward THEN RLt(current_time, end_precise_time(r))
    ELSE RLt(end_precise_time(r), current_time)

\* one turn of the loop: yield DfttTimecode(float(current_time), fps=fps),
\* then step current_time by frame_duration
IterYield ==
    LET frame_duration == RInv(io.fps)
    IN  /\ io.pc = "loop"
        /\ IterWithin(io.r.val, io.current_time)
        /\ io' = [io EXCEPT
                     !.yielded =
                         Append(io.yielded,
                                NewFromSeconds(io.current_time, "time", io.fps,
                                               FALSE, TRUE).val),
                     !.current_time =
                         IF io.forward THEN RAdd(io.current_time, frame_duration)
                         ELSE RSub(io.current_time, frame_duration)]
        /\ UNCHANGED <<tc, tr, last, steps>>

\* the loop ends and the generator returns
IterReturn ==
    /\ io.pc = "loop"
    /\ ~IterWithin(io.r.val, io.current_time)
    /\ io' = [io EXCEPT !.pc = "done"]
    /\ UNCHANGED <<tc, tr, last, steps>>

NextIter == NewIterated \/ RangeLen \/ Iter \/ IterYield \/ IterReturn

SpecIter == InitIter /\ [][NextIter]_vars

----------------------------------------------------------------------------
(* Rendering: a Timecode is constructed from seconds, rendered with        *)
(* timecode_output(dest, part), and the string rendered for part 0 is      *)
(* parsed again as a strict Timecode and rendered once more.  io holds the *)
(* arguments and the outcome of each call.                                 *)

\* seconds in the middle of a day, at its last millisecond, and below 0
OutputSeconds ==
    {RZero, Plus(3661, Frac(1, 2)), Plus(86399, Frac(99, 100)),
     Plus(86399, Frac(9996, 10000)), RInt(-1)}

OutputTypes == {"smpte", "srt", "dlp", "ffmpeg", "auto", "bogus"}

OutputParts == {-6, -2, -1, 0, 1, 2, 3, 4, 5}

OutputCall(value, fps, strict, dest, part) ==
    [pc |-> "start", value |-> value, fps |-> fps, strict |-> strict,
     dest |-> dest, part |-> part, t |-> Ok(NoTc), before |-> NoTc,
     out |-> Ok(NoIo), again |-> Ok(NoTc), out_again |-> Ok(NoIo)]

InitOutput ==
    /\ io \in {OutputCall(value, RInt(fps), strict, dest, part) :
                  value \in OutputSeconds, fps \in {24, 25},
                  strict \in BOOLEAN, dest \in OutputTypes,
                  part \in OutputParts}
    /\ tc = <<>>
    /\ tr = <<>>
    /\ last = Call("init", "none", 0, 0, 0, NoTc)
    /\ steps = 0

\* t = DfttTimecode(value, fps=fps, strict=strict)
NewForOutput ==
    /\ io.pc = "start"
    /\ io' = [io EXCEPT !.pc = "made",
                        !.t = NewTimecode(SecArg(io.value), "time", io.fps,
                                          FALSE, io.strict)]
    /\ UNCHANGED <<tc, tr, last, steps>>

\* out = t.timecode_output(dest, part); the call assigns to no field of t
Output ==
    /\ io.pc = "made"
    /\ io.t.err = "none"
    /\ io' = [io EXCEPT !.pc = "rendered", !.before = io.t.val,
                        !.out = timecode_output(io.t.val, io.dest, io.part)]
    /\ UNCHANGED <<tc, tr, last, steps>>

\* again = DfttTimecode(out, dest, fps=fps, strict=True)
Reparse ==
    /\ io.pc = "rendered"
    /\ io.out.err = "none"
    /\ io.part = 0
    /\ io' = [io EXCEPT !.pc = "reparsed",
                        !.again = NewTimecode(StrArg(io.out.val), io.dest,
                                              io.fps, FALSE, TRUE)]
    /\ UNCHANGED <<tc, tr, last, steps>>

\* out_again = again.timecode_output(dest)
OutputAgain ==
    /\ io.pc = "reparsed"
    /\ io.again.err = "none"
    /\ io' = [io EXCEPT !.pc = "rendered again",
                        !.out_again = timecode_output(io.again.val, io.dest, 0)]
    /\ UNCHANGED <<tc, tr, last, steps>>

NextOutput == NewForOutput \/ Output \/ Reparse \/ OutputAgain

SpecOutput == InitOutput /\ [][NextOutput]_vars

----------------------------------------------------------------------------
(* Properties of Timecodes                                                 *)

InDay(v) == RLe(RZero, v) /\ RLt(v, RInt(Day))

Operators == {"add", "sub", "rsub", "mul", "truediv", "neg"}

\* C1: every Timecode constructed with strict = true, from a string of any
\* format, an integer frame count or seconds, has 0 <= precise_time < 86400
C1_StrictConstructionInDay ==
    \A i \in Slots :
        tc[i] # NoTc /\ tc[i].strict => InDay(tc[i].precise_time)

\* C2: after any sequence of set_fps, set_type, set_strict and the operators,
\* every strict Timecode that exists (receivers, operands and the result)
\* has 0 <= precise_time < 86400
C2_StrictStaysInDay ==
    /\ \A i \in Slots : tc[i].strict => InDay(tc[i].precise_time)
    /\ last.op \in Operators /\ last.err = "none" /\ last.val.strict
           => InDay(last.val.precise_time)

\* C3: in every Timecode state reached by construction and set_fps calls,
\* is_drop_frame implies that round(fps, 2) is a multiple of 29.97 or 23.98
C3_DropFrameImpliesFamily ==
    \A i \in Slots :
        tc[i].drop_frame
            => IsMultiple(tc[i].fps, 2997) \/ IsMultiple(tc[i].fps, 2398)

\* C4: an operator + - * / or unary - leaves the precise_time, fps,
\* drop_frame, strict and type of its receiver and of its Timecode operand
\* as they were before the operation
C4_OperatorsLeaveOperands ==
    [][last'.op \in Operators
          => /\ tc'[last'.a] = tc[last'.a]
             /\ last'.b # 0 /\ last'.b # last'.dst
                    => tc'[last'.b] = tc[last'.b]]_vars

\* C5: constructing a Timecode from an existing Timecode succeeds and gives
\* back that instance with its fields unchanged
C5_FromTimecodeSucceeds ==
    last.op = "new_from_tc" => last.err = "none" /\ last.val = tc[last.a]

----------------------------------------------------------------------------
(* Properties of TimeRanges, checked under SpecRange.                      *)

RangeMethods ==
    {"offset", "extend", "shorten", "reverse", "retime", "separate",
     "contains", "intersect", "union", "add", "subtract", "sub", "truediv",
     "iter"}

\* the ranges the call l returned
Returned(l) ==
    IF l.err # "none" \/ l.op \in {"init", "contains", "iter"} THEN {}
    ELSE IF l.op = "separate" THEN {l.val[i] : i \in DOMAIN l.val}
    ELSE {l.val} \ {NoTr}

\* every range there is: those the client holds and those just returned
Existing == ({tr[i] : i \in Slots} \ {NoTr}) \cup Returned(last)

Amount(arg) == IF arg.k = "int" THEN RInt(arg.n) ELSE arg.v

\* the seconds of an end point given as a Timecode or as 00:00:00:00
EndSeconds(x) ==
    IF x.k = "tc" THEN {x.t.precise_time}
    ELSE IF x = Midnight THEN {RZero}
    ELSE {}

EndFps(x) == IF x.k = "tc" THEN {x.t.fps} ELSE {}

\* the duration between the end points of a construction, a negative one
\* of a strict range taken across midnight
EndsDuration(args) ==
    LET Across(d) == IF args.strict_24h /\ RSign(d) < 0
                     THEN RAdd(d, RInt(TIME_24H_SECONDS)) ELSE d
    IN  IF Cardinality(EndFps(args.start_tc) \cup EndFps(args.end_tc)) > 1
        THEN {}
        ELSE {Across(IF args.forward THEN RSub(e, b) ELSE RSub(b, e)) :
                  b \in EndSeconds(args.start_tc),
                  e \in EndSeconds(args.end_tc)}

\* two ranges of one direction and one rate that overlap or touch
Joinable(r, o) ==
    /\ r.forward = o.forward /\ r.fps = o.fps
    /\ \/ end_precise_time(r) = o.start_precise_time
       \/ end_precise_time(o) = r.start_precise_time
       \/ IF r.forward
          THEN RLt(RMax(r.start_precise_time, o.start_precise_time),
                   RMin(end_precise_time(r), end_precise_time(o)))
          ELSE RLt(RMax(end_precise_time(r), end_precise_time(o)),
                   RMin(r.start_precise_time, o.start_precise_time))

\* the length from the first start to the last end of two ranges
JoinedDuration(r, o) ==
    IF r.forward
    THEN RSub(RMax(end_precise_time(r), end_precise_time(o)),
              RMin(r.start_precise_time, o.start_precise_time))
    ELSE RSub(RMax(r.start_precise_time, o.start_precise_time),
              RMin(end_precise_time(r), end_precise_time(o)))

\* the duration the result of the call l on the range r is to have, for a
\* call whose arguments the operation accepts: none for any other call
Intended(l, r) ==
    LET Signed(v) == IF r.forward THEN v ELSE RNeg(v)
    IN  CASE l.op = "new" /\ l.arg.k = "span" -> {l.arg.duration}
          [] l.op = "new" /\ l.arg.k = "ends" -> EndsDuration(l.arg)
          [] l.op = "extend" /\ l.arg.k \in {"int", "sec"} ->
                {RAdd(r.precise_duration, Signed(Amount(l.arg)))}
          [] l.op = "extend" /\ l.arg.k = "tc" ->
                {RAdd(r.precise_duration, Signed(l.arg.t.precise_time))}
          [] l.op = "shorten" /\ l.arg.k \in {"int", "sec"} ->
                {RSub(r.precise_duration, Signed(Amount(l.arg)))}
          [] l.op = "retime" /\ l.arg.k \in {"int", "sec"} ->
                {RMul(r.precise_duration, Amount(l.arg))}
          [] l.op = "truediv" /\ l.arg.k \in {"int", "sec"}
                              /\ Amount(l.arg) # RZero ->
                {RDiv(r.precise_duration, Amount(l.arg))}
          [] l.op \in {"add", "subtract", "sub"} /\ l.arg.k = "range"
                                                /\ l.arg.r.fps = r.fps ->
                {IF (r.forward = l.arg.r.forward) = (l.op = "add")
                 THEN RAdd(r.precise_duration, l.arg.r.precise_duration)
                 ELSE RSub(r.precise_duration, l.arg.r.precise_duration)}
          [] l.op = "union" /\ l.arg.k = "range" /\ Joinable(r, l.arg.r) ->
                {JoinedDuration(r, l.arg.r)}
          [] OTHER -> {}

\* whether the result of the call l on the range r is to be strict
IntendedStrict(l, r) ==
    CASE l.op = "new" -> l.arg.strict_24h
      [] l.op = "union" -> r.strict_24h /\ l.arg.r.strict_24h
      [] OTHER -> r.strict_24h

TooLong(d) == RLt(RInt(TIME_24H_SECONDS), RAbs(d))

C7_StrictRangeWithinDay ==
    /\ [](\A r \in Existing : r.strict_24h => ~TooLong(r.precise_duration))
    /\ [][\A d \in Intended(last', tr[last'.a]) :
              IntendedStrict(last', tr[last'.a]) /\ TooLong(d)
                  => last'.err = "DFTTTimeRangeValueError"]_vars

\* C8: every TimeRange operation leaves the fields of the receiver and of
\* the argument range as they were, whether it returns or raises
C8_RangeOperationsLeaveOperands ==
    [][last'.op \in RangeMethods
          => /\ last'.self = tr[last'.a]
             /\ last'.b # 0 => /\ last'.other = tr[last'.b]
                               /\ tr'[last'.b] = tr[last'.b]]_vars

\* a union with the range tr[2] has returned a range that is neither its
\* receiver nor its argument
C8_Witness ==
    /\ last.op = "union" /\ last.err = "none" /\ last.b = 2
    /\ last.val # last.self /\ last.val # last.other
    /\ last.other = tr[2]

----------------------------------------------------------------------------
(* Properties of the SMPTE round trip, checked under SpecSmpte.            *)

\* the string s has been parsed and rendered, and the rendering is s
RoundTrips ==
    /\ io.pc # "start" => io.t.err = "none"
    /\ io.pc = "rendered" => io.out = Ok(io.s)

\* C9: at each of the rates 23.976, 24, 25, 29.97, 30, 59.94 and 119.88
\* with drop_frame false, every non-drop-frame string HH:MM:SS:FF with
\* FF < nominal_fps parses, and renders as smpte to the same string
C9_NonDropRoundTrip == ~io.drop_frame => RoundTrips

\* C10: at each of the rates 29.97, 59.94 and 119.88 with drop_frame true,
\* every drop-frame string HH:MM:SS;FF with FF < nominal_fps that is not a
\* dropped frame number parses, and renders as smpte to the same string
C10_DropRoundTrip == io.drop_frame => RoundTrips

----------------------------------------------------------------------------
(* Properties of parsing and rendering, checked under SpecParse.           *)

\* C11: every FCPX string 'N/Ds' in lowest terms with D > 1, or 'Ns',
\* of a time within one day parses as fcpx, and the Timecode renders as
\* fcpx to the same string
C11_FcpxRoundTrip ==
    (io.type = "fcpx" /\ io.dest = "fcpx") =>
        /\ io.pc # "start" => io.t.err = "none"
        /\ io.pc = "rendered" => io.out = Ok(io.s)

\* C12: at each drop-frame rate, a drop-frame string HH:MM:00;FF of a
\* minute that is no multiple of ten raises the ValueError and makes no
\* Timecode when FF is one of the nominal_fps / 30 * 2 frame numbers left
\* out, and is accepted when FF is the first frame number after them
C12_DroppedFramesRejected ==
    (io.dest = "smpte" /\ io.pc # "start") =>
        IF io.s.ff < DroppedPerMinute(io.fps)
        THEN io.t = Raise("DFTTTimecodeValueError")
        ELSE io.t.err = "none"

----------------------------------------------------------------------------
(* Properties of negation, checked under Spec.                             *)

\* C13: the negation of a strict Timecode t at an integer fps without
\* drop-frame has precise_time (86400 - t) mod 86400, and negating it
\* again gives a Timecode equal to t
C13_StrictNegation ==
    (/\ last.op = "neg"
     /\ tc[last.a].strict
     /\ RIsInt(tc[last.a].fps)
     /\ ~tc[last.a].drop_frame) =>
        /\ last.err = "none"
        /\ last.val.precise_time =
               RMod(RSub(RInt(Day), tc[last.a].precise_time), RInt(Day))
        /\ eq(neg(last.val).val, tc[last.a]) = [err |-> "none", val |-> TRUE]

----------------------------------------------------------------------------
(* Properties of construction from frames, checked under SpecFrames.       *)

\* C14: for every fps and every frame count n from 0 to below one day of
\* frames, the Timecode constructed from n frames has framecount n, and
\* its precise_timestamp is n / fps exactly, without rounding
C14_FramesLossless ==
    /\ io.pc # "start" =>
           /\ io.t.err = "none"
           /\ io.precise_timestamp =
                  [exact |-> RDiv(RInt(io.n), io.fps), error |-> NoError]
    /\ io.pc = "read" => io.framecount = io.n

----------------------------------------------------------------------------
(* Further properties of TimeRanges, checked under SpecRange.              *)

\* the sum of the durations of parts[1 .. i]
RECURSIVE SumDurations(_, _)
SumDurations(parts, i) ==
    IF i = 0 THEN RZero
    ELSE RAdd(SumDurations(parts, i - 1), parts[i].precise_duration)

\* C15: separate(n) with n >= 2 returns n ranges, each of the original
\* duration / n (the durations sum to the original), the first starting
\* at the original start, each part ending where the next starts and the
\* last ending at the original end, forward or backward; separate(n) with
\* n < 2 raises the ValueError
C15_SeparateParts ==
    last.op = "separate" =>
        IF last.arg.n < 2
        THEN last.err = "DFTTTimeRangeValueError" /\ last.val = NoTr
        ELSE /\ last.err = "none"
             /\ Len(last.val) = last.arg.n
             /\ \A i \in 1 .. last.arg.n :
                    RMul(last.val[i].precise_duration, RInt(last.arg.n))
                        = last.self.precise_duration
             /\ SumDurations(last.val, last.arg.n) = last.self.precise_duration
             /\ last.val[1].start_precise_time = last.self.start_precise_time
             /\ \A i \in 1 .. last.arg.n - 1 :
                    end_precise_time(last.val[i])
                        = last.val[i + 1].start_precise_time
             /\ end_precise_time(last.val[last.arg.n])
                    = end_precise_time(last.self)

\* a backward range has been separated into three parts
C15_Witness ==
    /\ last.op = "separate"
    /\ last.err = "none"
    /\ ~last.self.forward
    /\ last.arg.n = 3
    /\ Len(last.val) = 3

\* times from twelve hours before midnight to two days, six hours apart
ProbeTimes == {RInt(k * (HalfDay \div 2)) : k \in -2 .. 8}

\* a Timecode at the time v
Probe(v) == TcArg(NewFromSeconds(v, "time", RInt(24), FALSE, FALSE).val)

\* v lies within the inclusive bounds of the range r
Within(r, v) ==
    /\ RLe(RMin(r.start_precise_time, end_precise_time(r)), v)
    /\ RLe(v, RMax(r.start_precise_time, end_precise_time(r)))

\* C16: when a.intersect(b) returns a range r, a.contains(tc) and
\* b.contains(tc) are true of every Timecode tc whose precise_timestamp
\* lies within the inclusive bounds of r, and r is strict_24h exactly when
\* a and b both are
C16_IntersectionContained ==
    (last.op = "intersect" /\ last.err = "none" /\ last.val # NoTr) =>
        /\ \A v \in ProbeTimes :
               Within(last.val, v) =>
                   /\ contains(last.self, Probe(v), FALSE).val = TRUE
                   /\ contains(last.other, Probe(v), FALSE).val = TRUE
        /\ last.val.strict_24h
               = (last.self.strict_24h /\ last.other.strict_24h)

\* the intersection of two ranges is a third range
C16_Witness ==
    /\ last.op = "intersect"
    /\ last.err = "none"
    /\ last.val # NoTr
    /\ last.val # last.self
    /\ last.val # last.other
    /\ \E v \in ProbeTimes : Within(last.val, v)

\* C17: for any two ranges a and b, with endpoints that are any rationals
\* and not only times within one day, a.contains(b) is true exactly when
\* the start and the end of b both lie within the inclusive bounds of a,
\* taken in the direction of a (so a.contains(a) is true of a range a
\* whose bounds are in the order of its direction)
C17_ContainsRange ==
    (/\ last.op = "contains"
     /\ last.arg.k = "range"
     /\ ~last.arg.strict_forward) =>
        /\ last.err = "none"
        /\ last.val = (/\ ContainsTime(last.self,
                                       last.other.start_precise_time)
                       /\ ContainsTime(last.self,
                                       end_precise_time(last.other)))

\* the two ranges share more than a point
Overlapping(a, b) ==
    RLt(RMax(RMin(a.start_precise_time, end_precise_time(a)),
             RMin(b.start_precise_time, end_precise_time(b))),
        RMin(RMax(a.start_precise_time, end_precise_time(a)),
             RMax(b.start_precise_time, end_precise_time(b))))

\* one range ends where the other starts
Touching(a, b) ==
    \/ end_precise_time(a) = b.start_precise_time
    \/ end_precise_time(b) = a.start_precise_time

\* a.union(b) has been called for two ranges of one direction and one fps
UnionOfAlike ==
    /\ last.op = "union"
    /\ last.arg.k = "range"
    /\ last.self.forward = last.other.forward
    /\ last.self.fps = last.other.fps

\* the call returned the range from the earliest start to the latest end
\* in travel order, as long as both ranges together
Joins ==
    /\ last.err = "none"
    /\ last.val.start_precise_time =
           IF last.self.forward
           THEN RMin(last.self.start_precise_time,
                     last.other.start_precise_time)
           ELSE RMax(last.self.start_precise_time,
                     last.other.start_precise_time)
    /\ end_precise_time(last.val) =
           IF last.self.forward
           THEN RMax(end_precise_time(last.self), end_precise_time(last.other))
           ELSE RMin(end_precise_time(last.self), end_precise_time(last.other))
    /\ last.val.precise_duration =
           RAdd(last.self.precise_duration, last.other.precise_duration)

\* C18 as stated: for two ranges of one direction and one fps, union
\* raises the MethodError when they neither overlap nor touch; when they
\* touch at an endpoint, intersect returns None and union returns the
\* range from the earliest start to the latest end in travel order, with
\* the sum of both durations
C18_UnionOfTouching ==
    UnionOfAlike =>
        /\ (~Overlapping(last.self, last.other)
               /\ ~Touching(last.self, last.other))
               => last.err = "DFTTTimeRangeMethodError"
        /\ Touching(last.self, last.other) =>
               /\ intersect(last.self, RangeArg(last.other)).val = NoTr
               /\ Joins

\* C18 as amended: the same for two ranges of positive duration, where the
\* union of two touching ranges raises the ValueError instead when both
\* are strict_24h and the two durations sum to more than 24 hours
C18_UnionOfTouchingWithinDay ==
    (/\ UnionOfAlike
     /\ RLt(RZero, last.self.precise_duration)
     /\ RLt(RZero, last.other.precise_duration)) =>
        /\ (~Overlapping(last.self, last.other)
               /\ ~Touching(last.self, last.other))
               => last.err = "DFTTTimeRangeMethodError"
        /\ Touching(last.self, last.other) =>
               /\ intersect(last.self, RangeArg(last.other)).val = NoTr
               /\ IF /\ last.self.strict_24h /\ last.other.strict_24h
                     /\ RLt(RInt(TIME_24H_SECONDS),
                            RAdd(last.self.precise_duration,
                                 last.other.precise_duration))
                  THEN last.err = "DFTTTimeRangeValueError"
                  ELSE Joins

\* two touching ranges of positive duration have been joined
C18_Witness ==
    /\ UnionOfAlike
    /\ RLt(RZero, last.self.precise_duration)
    /\ RLt(RZero, last.other.precise_duration)
    /\ Touching(last.self, last.other)
    /\ last.err = "none"
    /\ last.val.precise_duration =
           RAdd(last.self.precise_duration, last.other.precise_duration)

\* the seconds an argument of offset stands for: a float or a Fraction
\* is seconds, an integer is frames, a Timecode is its timestamp
OffsetSeconds(value, fps) ==
    CASE value.k \in {"sec", "frac"} -> value.v
      [] value.k = "int" -> RDiv(RInt(value.n), fps)
      [] value.k = "tc" -> value.t.precise_time

\* C19: offset(d) returns a range that starts at the old start plus d, in
\* seconds for a float or a Fraction, d / fps for an integer frame count
\* of either sign, and the timestamp of a Timecode; the new start is
\* reduced modulo 86400 only when strict_24h is true, and
\* precise_duration, forward, fps and strict_24h are unchanged
C19_OffsetMovesStart ==
    (last.op = "offset" /\ last.arg.k \in {"sec", "frac", "int", "tc"}) =>
        /\ last.err = "none"
        /\ last.val.start_precise_time =
               IF last.self.strict_24h
               THEN RMod(RAdd(last.self.start_precise_time,
                              OffsetSeconds(last.arg, last.self.fps)),
                         RInt(TIME_24H_SECONDS))
               ELSE RAdd(last.self.start_precise_time,
                         OffsetSeconds(last.arg, last.self.fps))
        /\ last.val.precise_duration = last.self.precise_duration
        /\ last.val.forward = last.self.forward
        /\ last.val.fps = last.self.fps
        /\ last.val.strict_24h = last.self.strict_24h

\* the seconds an argument of extend or shorten stands for: a number is
\* seconds, a Timecode is its timestamp
AmountSeconds(value) ==
    CASE value.k = "int" -> RInt(value.n)
      [] value.k = "sec" -> value.v
      [] value.k = "tc" -> value.t.precise_time

\* C20: for a number or a Timecode d, the range that extend(d) returns has
\* the old precise_duration plus d when forward and minus d when backward,
\* the range that shorten(d) returns has the opposite change (as extend
\* of -d has), and start, direction, fps and strict_24h are unchanged
C20_ExtendAndShorten ==
    (/\ last.op \in {"extend", "shorten"}
     /\ last.arg.k \in {"int", "sec", "tc"}
     /\ last.err = "none") =>
        /\ last.val.precise_duration =
               IF (last.op = "extend") = last.self.forward
               THEN RAdd(last.self.precise_duration, AmountSeconds(last.arg))
               ELSE RSub(last.self.precise_duration, AmountSeconds(last.arg))
        /\ last.val.start_precise_time = last.self.start_precise_time
        /\ last.val.forward = last.self.forward
        /\ last.val.fps = last.self.fps
        /\ last.val.strict_24h = last.self.strict_24h

\* C21: for ranges a and b of one fps, the range a.add(b) returns has the
\* duration of a plus that of b when their directions agree and minus it
\* when they differ, and the start, direction and fps of a; subtracting b
\* from it succeeds and gives a range equal to a
C21_AddThenSubtract ==
    (/\ last.op = "add"
     /\ last.arg.k = "range"
     /\ last.self.fps = last.other.fps
     /\ last.err = "none") =>
        /\ last.val.precise_duration =
               IF last.self.forward = last.other.forward
               THEN RAdd(last.self.precise_duration,
                         last.other.precise_duration)
               ELSE RSub(last.self.precise_duration,
                         last.other.precise_duration)
        /\ last.val.start_precise_time = last.self.start_precise_time
        /\ last.val.forward = last.self.forward
        /\ last.val.fps = last.self.fps
        /\ subtract(last.val, RangeArg(last.other)).err = "none"
        /\ range_eq(subtract(last.val, RangeArg(last.other)).val, last.self)

\* a range of the other direction has been added to a range
C21_Witness ==
    /\ last.op = "add"
    /\ last.arg.k = "range"
    /\ last.err = "none"
    /\ last.self.forward # last.other.forward
    /\ last.val.precise_duration # last.self.precise_duration

----------------------------------------------------------------------------
(* Properties of iteration, checked under SpecIter                         *)

\* the time k frames from the start of r in its direction of travel
IterPosition(r, k) ==
    IF r.forward THEN RAdd(r.start_precise_time, RMul(RInt(k), RInv(r.fps)))
    ELSE RSub(r.start_precise_time, RMul(RInt(k), RInv(r.fps)))

\* C22: an iteration of a range that has ended has yielded exactly
\* framecount (== len) Timecodes, the k-th of them at the time k - 1 frames
\* from the start in the direction of travel and short of the end; a second
\* iteration of the range yields the sequence of the first
C22_IterationYieldsFramecount ==
    io.pc = "done" =>
        /\ Len(io.yielded) = io.len
        /\ \A k \in 1 .. Len(io.yielded) :
               /\ io.yielded[k].precise_time = IterPosition(io.r.val, k - 1)
               /\ IterWithin(io.r.val, io.yielded[k].precise_time)
        /\ io.pass = 2 => io.yielded = io.first

\* C29: every Timecode an iteration of a range yields, whatever the start of
\* the range, is contained in the range and has the timestamp of its
\* position, k frames from the start in the direction of travel
C29_YieldedContained ==
    \A k \in 1 .. Len(io.yielded) :
        /\ contains(io.r.val, TcArg(io.yielded[k]), FALSE).err = "none"
        /\ contains(io.r.val, TcArg(io.yielded[k]), FALSE).val
        /\ io.yielded[k].precise_time = IterPosition(io.r.val, k - 1)

----------------------------------------------------------------------------
(* Properties of the operators between two Timecodes, checked under        *)
(* SpecCompare                                                             *)

\* C23: between two Timecodes of different fps, +, - and each of the six
\* comparisons raise DFTTTimecodeOperatorError and return no value; + and -
\* raise it as well when the fps agree and the drop_frame flags differ; in
\* each of these cases both operands are left as they were
C23_MismatchRaises ==
    [][(/\ last'.a # 0
        /\ last'.b # 0
        /\ \/ tc[last'.a].fps # tc[last'.b].fps
           \/ /\ last'.op \in {"add", "sub"}
              /\ tc[last'.a].drop_frame # tc[last'.b].drop_frame) =>
           /\ last'.err = "DFTTTimecodeOperatorError"
           /\ last'.val = NoTc
           /\ tc' = tc]_vars

\* two Timecodes of one fps, one of them drop-frame, have been added
C23_Witness ==
    /\ last.op = "add"
    /\ last.err = "DFTTTimecodeOperatorError"
    /\ tc[last.a].fps = tc[last.b].fps
    /\ tc[last.a].drop_frame # tc[last.b].drop_frame

----------------------------------------------------------------------------
(* Properties of rendering, checked under SpecOutput                       *)

MultiField == {"smpte", "srt", "dlp", "ffmpeg"}

\* C24: timecode_output with a dest_type that is neither 'auto' nor one of
\* the seven formats raises nothing, returns what rendering as smpte
\* returns, and leaves the Timecode as it was
C24_UnknownTypeFallsBack ==
    (io.pc = "rendered" /\ io.dest \notin Types \cup {"auto"}) =>
        /\ io.out.err = "none"
        /\ io.out = timecode_output(io.before, "smpte", io.part)
        /\ io.t.val = io.before

\* C25: in the smpte, srt, dlp and ffmpeg formats timecode_output(format,
\* part) returns the whole string for part 0, the hours, minutes, seconds
\* and frames or sub-seconds field for part 1 to 4, and the last field for
\* every other part, greater than 4 or negative, raising nothing
C25_PartsOfOutput ==
    (io.pc = "rendered" /\ io.dest \in MultiField) =>
        /\ io.out.err = "none"
        /\ io.out.val =
               IF io.part = 0 THEN timecode_output(io.before, io.dest, 0).val
               ELSE Field(timecode_output(io.before, io.dest, 0).val,
                          IF io.part \in 1 .. 4 THEN io.part ELSE 4)

\* C30: a strict Timecode with 0 <= precise_time < 86400 is rendered in the
\* smpte, srt, dlp and ffmpeg formats with an hours field from 00 to 23, and
\* the string rendered, parsed as a strict Timecode and rendered again, is
\* the same string
C30_RenderedWithinDay ==
    (/\ io.pc \in {"rendered", "reparsed", "rendered again"}
     /\ io.dest \in MultiField
     /\ io.part = 0
     /\ io.before.strict
     /\ InDay(io.before.precise_time)) =>
        /\ io.out.err = "none"
        /\ io.out.val.hh \in 0 .. 23
        /\ io.pc = "reparsed" => io.again.err = "none"
        /\ io.pc = "rendered again" => io.out_again = io.out

----------------------------------------------------------------------------
(* Further properties of parsing, checked under SpecParse                  *)

\* the string matches the grammar of the format
Matches(ty, s) ==
    CASE ty = "smpte" -> SMPTE_REGEX(s)
      [] ty = "srt" -> SRT_REGEX(s)
      [] ty = "dlp" -> DLP_REGEX(s)
      [] ty = "ffmpeg" -> FFMPEG_REGEX(s)
      [] ty = "fcpx" -> FCPX_REGEX(s)
      [] ty = "frame" -> FRAME_REGEX(s)
      [] ty = "time" -> TIME_REGEX(s)
      [] OTHER -> FALSE

\* C26: the construction of a Timecode from a string fails with one of the
\* error kinds derived from DFTTError and with no other exception, and with
\* DFTTTimecodeTypeError when the string does not match the declared format
\* or, under 'auto', matches the grammar of no format
C26_NamedErrorsOnly ==
    io.pc \in {"parsed", "rendered"} =>
        /\ io.t.err \in DFTTErrors \cup {"none"}
        /\ (io.type \in Types /\ ~Matches(io.type, io.s)) =>
               io.t.err = "DFTTTimecodeTypeError"
        /\ (io.type = "auto" /\ \A ty \in Types : ~Matches(ty, io.s)) =>
               io.t.err = "DFTTTimecodeTypeError"

\* C28: a strict Timecode parsed from the FFmpeg string HH:MM:SS.d1...dk has
\* the precise_time hh * 3600 + mm * 60 + ss + (d1...dk as an integer) /
\* 10^k modulo 86400, whatever the digits, leading zeros included
C28_FfmpegSubSeconds ==
    (/\ io.pc \in {"parsed", "rendered"}
     /\ io.type \in {"auto", "ffmpeg"}
     /\ io.s.k = "hms"
     /\ io.s.sep = ".") =>
        /\ io.t.err = "none"
        /\ io.t.val.precise_time =
               ModInt(Plus(io.s.hh * 3600 + io.s.mm * 60 + io.s.ss,
                           Frac(io.s.ff, Pow10(io.s.w))), Day)

----------------------------------------------------------------------------
(* A further property of TimeRanges, checked under SpecRange               *)

\* C27: for a range tr that is not strict and an operand x that is no range,
\* tr - x shifts the start by minus the amount tr + x shifts it by, and
\* (tr + x) - x equals tr
C27_SubUndoesAdd ==
    (/\ last.op = "sub"
     /\ last.arg.k # "range"
     /\ ~last.self.strict_24h
     /\ offset(last.self, last.arg).err = "none") =>
        /\ last.err = "none"
        /\ RSub(last.val.start_precise_time, last.self.start_precise_time) =
               RSub(last.self.start_precise_time,
                    offset(last.self, last.arg).val.start_precise_time)
        /\ range_sub(offset(last.self, last.arg).val, last.arg).err = "none"
        /\ range_eq(range_sub(offset(last.self, last.arg).val, last.arg).val,
                    last.self)

====
